---- MODULE Spec2Model ----
(***************************************************************************)
(* Semester progression / unit enrolment workflow of the students portal:  *)
(* SemesterReport, UnitEnrollment and UnitRegistration rows, the student   *)
(* record they advance, and the request handlers and admin actions that    *)
(* create and decide them (portal/models.py, portal/utils.py,              *)
(* portal/views.py, portal/admin.py, portal/signals.py).                   *)
(***************************************************************************)
EXTENDS Integers, Sequences, FiniteSets, TLC

(***************************************************************************)
(* Universes and bounds                                                    *)
(***************************************************************************)
Students == {1, 2}
\* Semester rows; a higher id starts later (and lies in a later academic year)
SemesterIds == {1, 2}
ProgrammeUnits == {1, 2, 3}
\* the students whose reports the progression engine is exercised with
ReportingStudents == {1}
AcademicYears == {1, 2}
\* Semester.academic_year
SemesterYear(m) == m

MaxReports == 2
MaxEnrollments == 2
\* longest list of units one unit_enrollment_view request selects
MaxSelected == 1

\* Programme.total_semesters of the students' programme: 8 (two semesters a
\* year) or 9 (three a year)
TotalSemestersChoices == {8, 9}

\* Semester.SEMESTER_NAMES keys
SEMESTER_NAMES == {"1", "2", "3"}
REPORT_STATUS == {"pending", "approved", "rejected", "deferred"}
ENROLLMENT_STATUS == {"pending", "approved", "rejected", "dropped"}
ENROLLMENT_TYPE == {"normal", "resit", "retake"}

\* MaxValueValidator(7) / MinValueValidator(1) on to_year_of_study
MinYearOfStudy == 1
MaxYearOfStudy == 7
\* the eligibility limit of SemesterReport.clean / save and of utils
MaxFailedUnits == 2

VARIABLES
    student,          \* Student rows: [current_year, current_semester]
    total_semesters,  \* Programme.total_semesters
    results,          \* SemesterResults rows
    gpas,             \* SemesterGPA rows, as <<student, semester>>
    is_current,       \* Semester.is_current, by semester id
    year_is_current,  \* AcademicYear.is_current, by academic year id
    reports,          \* SemesterReport rows; the row's pk is its index
    allocations,      \* <<programme unit, semester>> with a UnitAllocation approved_dean
    enrollments,      \* UnitEnrollment rows; the row's pk is its index
    registrations,    \* UnitRegistration rows; the row's pk is its index
    resits,           \* ResitExam rows; the row's pk is its index
    signals_ready,    \* whether portal.signals has been imported (receivers connected)
    refused,          \* per student: the last filing was refused as not eligible
    last,             \* the last request and what it answered
    procs             \* per worker: the statement its request has reached

enrolVars == <<allocations, enrollments, registrations, resits>>

vars == <<student, total_semesters, results, gpas, is_current, year_is_current,
          reports, signals_ready, refused, last, enrolVars, procs>>

(***************************************************************************)
(* Conversions: Student.current_semester is a one-character string         *)
(***************************************************************************)
\* int(student.current_semester)
IntOf(c) == CASE c = "1" -> 1 [] c = "2" -> 2 [] c = "3" -> 3

\* str(n)
StrOf(n) == CASE n = 1 -> "1" [] n = 2 -> "2" [] n = 3 -> "3" [] n = 4 -> "4"

\* the server's workers, each handling one request at a time
Workers == {1, 2}

\* a worker: the statement its request is about to run and the request's
\* local variables
Worker(pc, locals) == [pc |-> pc, locals |-> locals]

\* no request is in flight
NoWorkers == [p \in Workers |-> Worker("idle", <<>>)]

\* what a request answered: the operation, the student and semester it was
\* for, the count it worked with (the failed-unit count of a filing, the
\* number of rows an enrolment request created), and the errors it reported
\* (none: it succeeded)
Answer(op, s, m, count, errs) ==
    [op |-> op, student |-> s, semester |-> m, count |-> count, errors |-> errs]

(***************************************************************************)
(* Queries                                                                 *)
(***************************************************************************)
Max(S) == CHOOSE x \in S : \A y \in S : y <= x

\* Semester.objects.filter(is_current=True).first(), 0 for None; Semester.Meta
\* orders by -academic_year__start_date, so the latest current semester is first
CurrentSemester ==
    LET cur == {m \in SemesterIds : is_current[m]}
    IN IF cur = {} THEN 0 ELSE Max(cur)

\* get_student_failed_units_count(student, semester=None); semester 0 is None
get_student_failed_units_count(s, semester) ==
    LET query == {r \in results : r.student = s /\ ~r.is_passed}
    IN IF semester # 0
       THEN Cardinality({r \in query : r.semester = semester})
       ELSE Cardinality(query)

\* get_student_eligibility_for_reporting: <<is_eligible, failed_count>>
get_student_eligibility_for_reporting(s) ==
    LET failed_count == get_student_failed_units_count(s, 0)
    IN IF failed_count > MaxFailedUnits
       THEN <<FALSE, failed_count>>
       ELSE <<TRUE, failed_count>>

\* student.semester_gpas.order_by('-semester__start_date').first().semester,
\* 0 when the student has no SemesterGPA
LatestGpaSemester(s) ==
    LET sems == {m \in SemesterIds : <<s, m>> \in gpas}
    IN IF sems = {} THEN 0 ELSE Max(sems)

\* the failed_units count of semester_report_view: failed results of the
\* semester of the latest SemesterGPA; with no GPA the filter is semester=None,
\* which matches no row
ViewFailedUnits(s) ==
    LET m == LatestGpaSemester(s)
    IN Cardinality({r \in results :
                      r.student = s /\ ~r.is_passed /\ m # 0 /\ r.semester = m})

\* calculate_next_semester_details(student): <<next_year, next_semester_number>>
calculate_next_semester_details(s) ==
    LET current_year == student[s].current_year
        current_sem  == IntOf(student[s].current_semester)
        sems_per_year == IF total_semesters % 3 = 0 THEN 3 ELSE 2
    IN IF current_sem < sems_per_year
       THEN <<current_year, StrOf(current_sem + 1)>>
       ELSE <<current_year + 1, "1">>

\* the next year / semester computed inline by semester_report_view
ViewNextSemester(s) ==
    LET current_year == student[s].current_year
        current_sem  == IntOf(student[s].current_semester)
    IN IF current_sem < 3
       THEN <<current_year, StrOf(current_sem + 1)>>
       ELSE <<current_year + 1, "1">>

(***************************************************************************)
(* SemesterReport: validation and save                                     *)
(***************************************************************************)
\* a new SemesterReport instance (status defaults to pending)
NewReport(s, to_sem, target, failed, status) ==
    [student |-> s, to_semester |-> to_sem,
     to_year_of_study |-> target[1], to_semester_number |-> target[2],
     failed_units_count |-> failed, is_eligible |-> FALSE, status |-> status]

\* Model.clean_fields: the field validators and choices
SemesterReport_clean_fields(r) ==
    (IF r.to_year_of_study < MinYearOfStudy \/ r.to_year_of_study > MaxYearOfStudy
     THEN {"invalid_year"} ELSE {})
    \cup (IF r.to_semester_number \notin SEMESTER_NAMES
          THEN {"invalid_semester_number"} ELSE {})

\* SemesterReport.clean; pk = 0 for an instance not yet saved
SemesterReport_clean(r, pk) ==
    IF r.failed_units_count > MaxFailedUnits
    THEN {"ineligible"}
    ELSE IF \E i \in DOMAIN reports :
               /\ i # pk
               /\ reports[i].student = r.student
               /\ reports[i].to_semester = r.to_semester
               /\ reports[i].status = "approved"
         THEN {"duplicate"}
         ELSE {}

\* Model.full_clean: the errors of clean_fields and of clean together
SemesterReport_full_clean(r, pk) ==
    SemesterReport_clean_fields(r) \cup SemesterReport_clean(r, pk)

\* signals.update_student_progression(instance, created), when connected
update_student_progression(st, r, created) ==
    IF signals_ready /\ r.status = "approved" /\ ~created
    THEN [st EXCEPT ![r.student] =
            [current_year |-> r.to_year_of_study,
             current_semester |-> r.to_semester_number]]
    ELSE st

\* the tail of SemesterReport.save: the student follows an approved report
ProgressStudent(st, r) ==
    IF r.status = "approved"
    THEN [st EXCEPT ![r.student] =
            [current_year |-> r.to_year_of_study,
             current_semester |-> r.to_semester_number]]
    ELSE st

\* SemesterReport.save of instance r (pk = 0: insert) requested by operation op
SemesterReport_save(r, pk, op, count) ==
    LET r1   == [r EXCEPT !.is_eligible = (r.failed_units_count <= MaxFailedUnits)]
        errs == SemesterReport_full_clean(r1, pk)
    IN IF errs # {}
       THEN /\ UNCHANGED <<reports, student>>
            /\ refused' = IF pk = 0 /\ "ineligible" \in errs
                          THEN [refused EXCEPT ![r.student] = TRUE]
                          ELSE refused
            /\ last' = Answer(op, r.student, r.to_semester, count, errs)
       ELSE /\ reports' = IF pk = 0 THEN Append(reports, r1)
                          ELSE [reports EXCEPT ![pk] = r1]
            /\ student' = ProgressStudent(
                              update_student_progression(student, r1, pk = 0), r1)
            /\ refused' = IF pk = 0 THEN [refused EXCEPT ![r.student] = FALSE]
                          ELSE refused
            /\ last' = Answer(op, r.student, r.to_semester, count, {})

\* the SemesterReport rows with status pending or approved of (s, to_sem)
ExistingReports(s, to_sem) ==
    {i \in DOMAIN reports :
        /\ reports[i].student = s
        /\ reports[i].to_semester = to_sem
        /\ reports[i].status \in {"pending", "approved"}}

\* QuerySet.first() under SemesterReport.Meta ordering -report_date
FirstReport(S) == Max(S)

(***************************************************************************)
(* Filing a report                                                         *)
(***************************************************************************)
\* views.semester_report_view, POST
semester_report_view(s) ==
    LET current_semester == CurrentSemester
        existing == ExistingReports(s, current_semester)
        failed_units == ViewFailedUnits(s)
    IN /\ UNCHANGED <<total_semesters, results, gpas, is_current, year_is_current,
                      signals_ready>>
       /\ IF current_semester = 0
          THEN /\ UNCHANGED <<reports, student, refused>>
               /\ last' = Answer("semester_report_view", s, 0, failed_units, {"no_active_semester"})
          ELSE IF existing # {}
          THEN /\ UNCHANGED <<reports, student, refused>>
               /\ last' = Answer("semester_report_view", s, current_semester, failed_units, {"already_reported"})
          ELSE /\ Len(reports) < MaxReports
               /\ SemesterReport_save(
                   NewReport(s, current_semester, ViewNextSemester(s),
                             failed_units, "pending"),
                   0, "semester_report_view", failed_units)

\* utils.create_semester_report(student, to_semester)
create_semester_report(s, to_semester) ==
    LET existing == ExistingReports(s, to_semester)
        elig == get_student_eligibility_for_reporting(s)
    IN /\ UNCHANGED <<total_semesters, results, gpas, is_current, year_is_current,
                      signals_ready>>
       /\ IF existing # {}
          THEN /\ UNCHANGED <<reports, student, refused>>
               /\ last' = Answer("create_semester_report", s, to_semester, elig[2], {"already_reported"})
          ELSE IF ~elig[1]
          THEN /\ UNCHANGED <<reports, student>>
               /\ refused' = [refused EXCEPT ![s] = TRUE]
               /\ last' = Answer("create_semester_report", s, to_semester, elig[2], {"ineligible"})
          ELSE /\ Len(reports) < MaxReports
               /\ SemesterReport_save(
                   NewReport(s, to_semester, calculate_next_semester_details(s),
                             elig[2], "pending"),
                   0, "create_semester_report", elig[2])

(***************************************************************************)
(* What a refused filing tells the student. A text is the sequence of its  *)
(* pieces; a formatted number is the piece StrOf gives.                    *)
(***************************************************************************)
\* the message of get_student_eligibility_for_reporting for failed_count > 2:
\* two f-strings
EligibilityMessage(failed_count) ==
    <<"You have", StrOf(failed_count), "failed units", ".",
      "Maximum allowed is 2", ".",
      "You must clear", StrOf(failed_count - 2), "unit(s) through resit exams.">>

\* the ValidationError of SemesterReport.clean for failed_units_count > 2: an
\* f-string followed by a plain literal, whose braces are not filled in
SemesterReport_clean_message(failed_units_count) ==
    <<"Cannot report for semester.", "You have", StrOf(failed_units_count),
      "failed units", ".",
      "You must clear at least", "{self.failed_units_count - 2}",
      "failed unit(s) before reporting.">>

\* eligibility_remarks as SemesterReport.save sets it on the instance before
\* full_clean; full_clean then raises, so no row ever stores it
eligibility_remarks(failed_units_count) ==
    <<"Not eligible:", StrOf(failed_units_count), "failed units", ".",
      "Maximum allowed is 2", "failed units", ".">>

\* the text answer a hands back when it refuses a filing as not eligible:
\* create_semester_report returns the eligibility message, the view passes
\* str(e) of the ValidationError of SemesterReport.save to messages.error
RefusalMessage(a) ==
    IF "ineligible" \notin a.errors THEN <<>>
    ELSE IF a.op = "create_semester_report" THEN EligibilityMessage(a.count)
    ELSE SemesterReport_clean_message(a.count)

(***************************************************************************)
(* Deciding a report: the admin change form and the admin bulk actions     *)
(***************************************************************************)
\* SemesterReportAdmin add form: ModelAdmin.save_model calls obj.save()
AdminAddReport(s, to_sem, target, failed, status) ==
    /\ Len(reports) < MaxReports
    /\ UNCHANGED <<total_semesters, results, gpas, is_current, year_is_current,
                   signals_ready>>
    /\ SemesterReport_save(NewReport(s, to_sem, target, failed, status),
                           0, "admin_add_report", failed)

\* SemesterReportAdmin change form: the stored row is saved again with the
\* status chosen in the form (the same status: a plain re-save)
AdminChangeReport(pk, status) ==
    /\ pk \in DOMAIN reports
    /\ UNCHANGED <<total_semesters, results, gpas, is_current, year_is_current,
                   signals_ready>>
    /\ SemesterReport_save([reports[pk] EXCEPT !.status = status], pk,
                           "admin_change_report", reports[pk].failed_units_count)

\* QuerySet.update(status=...): one UPDATE statement; neither Model.save nor
\* the post_save receivers run
QuerySetUpdateStatus(rows, Q, status) ==
    [i \in DOMAIN rows |->
        IF i \in Q THEN [rows[i] EXCEPT !.status = status] ELSE rows[i]]

\* SemesterReportAdmin.approve_reports(request, queryset)
approve_reports(Q) ==
    /\ Q # {} /\ Q \subseteq DOMAIN reports
    /\ reports' = QuerySetUpdateStatus(reports, Q, "approved")
    /\ last' = Answer("approve_reports", 0, 0, 0, {})
    /\ UNCHANGED <<student, total_semesters, results, gpas, is_current,
                   year_is_current, signals_ready, refused>>

\* SemesterReportAdmin.reject_reports(request, queryset)
reject_reports(Q) ==
    /\ Q # {} /\ Q \subseteq DOMAIN reports
    /\ reports' = QuerySetUpdateStatus(reports, Q, "rejected")
    /\ last' = Answer("reject_reports", 0, 0, 0, {})
    /\ UNCHANGED <<student, total_semesters, results, gpas, is_current,
                   year_is_current, signals_ready, refused>>

(***************************************************************************)
(* Calendar                                                                *)
(***************************************************************************)
\* views.set_current_semester(request, pk), one request run on its own
set_current_semester(pk) ==
    /\ pk \in DOMAIN is_current      \* get_object_or_404(Semester, pk=pk)
    /\ is_current' = [m \in DOMAIN is_current |-> m = pk]
    /\ year_is_current' = [y \in DOMAIN year_is_current |-> y = SemesterYear(pk)]
    /\ last' = Answer("set_current_semester", 0, 0, 0, {})
    /\ UNCHANGED <<student, total_semesters, results, gpas, reports,
                   signals_ready, refused>>

(***************************************************************************)
(* Progression engine: initial states and next-state relation              *)
(***************************************************************************)
\* SemesterResults rows of student s: f1 failed units in semester 1 (the other
\* units passed), f2 failed units in semester 2
ResultRows(s, f1, f2) ==
    {[student |-> s, programme_unit |-> u, semester |-> 1, is_passed |-> (u > f1)] :
        u \in ProgrammeUnits}
    \cup {[student |-> s, programme_unit |-> u, semester |-> 2, is_passed |-> FALSE] :
            u \in {v \in ProgrammeUnits : v <= f2}}

\* the result ledgers the initial states draw from, as <<failed units in
\* semester 1, failed units in semester 2, semester of the latest SemesterGPA>>
Ledgers == {<<0, 0, 0>>, <<3, 0, 1>>, <<1, 2, 2>>}
\* the statuses the admin change form is exercised with
AdminChangeStatus == {"pending", "approved", "rejected"}

\* the reports the admin add form is exercised with
AdminTargets == {<<2, "1">>}
AdminFailedCounts == {0, 3}
AdminAddStatus == {"pending", "approved"}

NoRequest == Answer("none", 0, 0, 0, {})

Init ==
    /\ student = [s \in Students |-> [current_year |-> 1, current_semester |-> "1"]]
    /\ total_semesters \in TotalSemestersChoices
    /\ \E p \in Ledgers :
          /\ results = UNION {ResultRows(s, p[1], p[2]) : s \in Students}
          /\ gpas = {<<s, m>> \in Students \X SemesterIds : m <= p[3]}
    /\ is_current = [m \in SemesterIds |-> m = 1]
    /\ year_is_current = [y \in AcademicYears |-> y = 1]
    /\ reports = <<>>
    /\ signals_ready = FALSE    \* PortalConfig defines no ready(): nothing imports portal.signals
    /\ refused = [s \in Students |-> FALSE]
    /\ last = NoRequest
    /\ allocations = {}
    /\ enrollments = <<>>
    /\ registrations = <<>>
    /\ resits = <<>>
    /\ procs = NoWorkers

Next ==
    \/ \E s \in ReportingStudents :
          semester_report_view(s) /\ UNCHANGED <<enrolVars, procs>>
    \/ \E s \in ReportingStudents, m \in SemesterIds :
          create_semester_report(s, m) /\ UNCHANGED <<enrolVars, procs>>
    \/ \E s \in ReportingStudents, m \in SemesterIds, t \in AdminTargets,
          f \in AdminFailedCounts, st \in AdminAddStatus :
            AdminAddReport(s, m, t, f, st) /\ UNCHANGED <<enrolVars, procs>>
    \/ \E pk \in 1..MaxReports, st \in AdminChangeStatus :
          AdminChangeReport(pk, st) /\ UNCHANGED <<enrolVars, procs>>
    \/ \E Q \in SUBSET (1..MaxReports) : approve_reports(Q) /\ UNCHANGED <<enrolVars, procs>>
    \/ \E Q \in SUBSET (1..MaxReports) : reject_reports(Q) /\ UNCHANGED <<enrolVars, procs>>
    \/ \E pk \in SemesterIds : set_current_semester(pk) /\ UNCHANGED <<enrolVars, procs>>

Spec == Init /\ [][Next]_vars

(***************************************************************************)
(* UnitEnrollment, UnitRegistration, ResitExam: validation and save        *)
(***************************************************************************)
\* the tables the enrolment engine writes
Tables(enr, reg, res) == [enrollments |-> enr, registrations |-> reg, resits |-> res]

\* what a save answers: the tables after it and the errors it raised
Outcome(db, errs) == [db |-> db, errs |-> errs]

\* a new UnitEnrollment instance; resit_exam is the pk of the linked
\* ResitExam, 0 for None
NewEnrollment(s, report, u, m, type, status, resit) ==
    [student |-> s, semester_report |-> report, programme_unit |-> u,
     semester |-> m, enrollment_type |-> type, status |-> status,
     resit_exam |-> resit]

\* UnitAllocation.objects.filter(programme_unit, semester,
\* status='approved_dean').exists()
IsOffered(u, m) == <<u, m>> \in allocations

\* SemesterResults.objects.filter(student, programme_unit,
\* is_passed=False).first() is not None
HasFailedResult(s, u) ==
    \E r \in results : r.student = s /\ r.programme_unit = u /\ ~r.is_passed

\* the pending / approved UnitEnrollment rows of (s, u, m) other than pk
ActiveEnrollments(rows, s, u, m, pk) ==
    {i \in DOMAIN rows :
        /\ i # pk
        /\ rows[i].student = s
        /\ rows[i].programme_unit = u
        /\ rows[i].semester = m
        /\ rows[i].status \in {"pending", "approved"}}

\* UnitEnrollment.clean without its failed-result check for resit enrolments
UnitEnrollment_clean_NoResitCheck(e, pk, rows) ==
    IF e.semester_report \notin DOMAIN reports
          \/ reports[e.semester_report].status # "approved"
    THEN {"must_report"}
    ELSE IF ~IsOffered(e.programme_unit, e.semester)
    THEN {"not_offered"}
    ELSE IF ActiveEnrollments(rows, e.student, e.programme_unit, e.semester, pk) # {}
    THEN {"already_enrolled"}
    ELSE {}

\* UnitEnrollment.clean: the first failing check raises
UnitEnrollment_clean(e, pk, rows) ==
    IF e.semester_report \notin DOMAIN reports
          \/ reports[e.semester_report].status # "approved"
    THEN {"must_report"}
    ELSE IF ~IsOffered(e.programme_unit, e.semester)
    THEN {"not_offered"}
    ELSE IF ActiveEnrollments(rows, e.student, e.programme_unit, e.semester, pk) # {}
    THEN {"already_enrolled"}
    ELSE IF e.enrollment_type = "resit" /\ ~HasFailedResult(e.student, e.programme_unit)
    THEN {"no_failed_result"}
    ELSE {}

\* Model.validate_unique of UnitEnrollment: unique_together (student,
\* programme_unit, semester) and the one-to-one resit_exam
UnitEnrollment_validate_unique(e, pk, rows) ==
    (IF \E i \in DOMAIN rows :
           /\ i # pk
           /\ rows[i].student = e.student
           /\ rows[i].programme_unit = e.programme_unit
           /\ rows[i].semester = e.semester
     THEN {"unique"} ELSE {})
    \cup (IF e.resit_exam # 0
             /\ \E i \in DOMAIN rows : i # pk /\ rows[i].resit_exam = e.resit_exam
          THEN {"unique_resit_exam"} ELSE {})

\* Model.full_clean: the errors of clean and of validate_unique together
UnitEnrollment_full_clean(e, pk, rows) ==
    UnitEnrollment_clean(e, pk, rows) \cup UnitEnrollment_validate_unique(e, pk, rows)

\* UnitRegistration.objects.create: a row is always added
get_or_create_AlwaysCreate(rows, s, u, m, is_retake) ==
    Append(rows, [student |-> s, programme_unit |-> u, semester |-> m,
                  is_retake |-> is_retake])

\* UnitRegistration.objects.get_or_create(student, programme_unit, semester,
\* defaults={'is_retake': ...})
get_or_create(rows, s, u, m, is_retake) ==
    IF \E i \in DOMAIN rows :
          /\ rows[i].student = s
          /\ rows[i].programme_unit = u
          /\ rows[i].semester = m
    THEN rows
    ELSE Append(rows, [student |-> s, programme_unit |-> u, semester |-> m,
                       is_retake |-> is_retake])

\* UnitEnrollment.save of instance e (pk = 0: insert) on tables db
UnitEnrollment_save(e, pk, db) ==
    LET errs == UnitEnrollment_full_clean(e, pk, db.enrollments)
    IN IF errs # {}
       THEN Outcome(db, errs)
       ELSE LET enr == IF pk = 0 THEN Append(db.enrollments, e)
                       ELSE [db.enrollments EXCEPT ![pk] = e]
                reg == IF e.status = "approved"
                       THEN get_or_create(db.registrations, e.student,
                                e.programme_unit, e.semester,
                                e.enrollment_type \in {"resit", "retake"})
                       ELSE db.registrations
            IN Outcome(Tables(enr, reg, db.resits), {})

\* a Decimal with two decimal places, in hundredths
Dec(whole) == whole * 100

\* None in a nullable DecimalField (resit_marks, resit_grade_point)
NoMarks == -1

\* the foreign key to a SemesterResults row: the row's unique_together key
\* (student, programme_unit, semester) stands for its pk
ResultPk(result) ==
    [student |-> result.student, programme_unit |-> result.programme_unit,
     semester |-> result.semester]

\* a new ResitExam instance: the original attempt is copied from the result,
\* status defaults to registered, there are no resit marks yet
NewResitExam(s, result, m) ==
    [student |-> s, original_result |-> ResultPk(result), resit_semester |-> m,
     original_marks |-> result.total_marks, original_grade |-> result.grade,
     original_grade_point |-> result.grade_point,
     resit_marks |-> NoMarks, resit_grade |-> "", resit_grade_point |-> NoMarks,
     status |-> "registered"]

\* ResitExam.clean: the first failing check raises
ResitExam_clean(x, pk, rows) ==
    IF ~IsOffered(x.original_result.programme_unit, x.resit_semester)
    THEN {"resit_not_offered"}
    ELSE IF \E i \in DOMAIN rows :
               /\ i # pk
               /\ rows[i].student = x.student
               /\ rows[i].original_result = x.original_result
               /\ rows[i].resit_semester = x.resit_semester
    THEN {"already_registered"}
    ELSE {}

\* Model.validate_unique of ResitExam: unique_together (student,
\* original_result, resit_semester)
ResitExam_validate_unique(x, pk, rows) ==
    IF \E i \in DOMAIN rows :
          /\ i # pk
          /\ rows[i].student = x.student
          /\ rows[i].original_result = x.original_result
          /\ rows[i].resit_semester = x.resit_semester
    THEN {"unique"} ELSE {}

\* ResitExam.save of a new instance: status is registered and resit_marks is
\* None, so the write-back to the original result does not run
ResitExam_save(x, db) ==
    LET errs == ResitExam_clean(x, 0, db.resits)
                   \cup ResitExam_validate_unique(x, 0, db.resits)
    IN IF errs # {}
       THEN Outcome(db, errs)
       ELSE Outcome([db EXCEPT !.resits = Append(db.resits, x)], {})

(***************************************************************************)
(* Enrolling: the student view, the utility and the admin                  *)
(***************************************************************************)
progressionVars == <<student, total_semesters, results, gpas, is_current,
                     year_is_current, reports, signals_ready, refused,
                     allocations, procs>>

\* what a loop of the view has done so far: the tables, the error that ended
\* it (none: still running) and enrolled_count
Progress(db, errs, count) == [db |-> db, errs |-> errs, count |-> count]

\* unit_enrollment_view, "for unit_id in selected_units": every save commits
\* on its own; the first exception leaves the loop
RECURSIVE EnrollSelectedUnits(_, _, _, _, _)
EnrollSelectedUnits(s, report, m, units, acc) ==
    IF units = <<>>
    THEN acc
    ELSE LET saved == UnitEnrollment_save(
                          NewEnrollment(s, report, Head(units), m, "normal",
                                        "pending", 0),
                          0, acc.db)
         IN IF saved.errs # {}
            THEN Progress(acc.db, saved.errs, acc.count)
            ELSE EnrollSelectedUnits(s, report, m, Tail(units),
                                     Progress(saved.db, {}, acc.count + 1))

\* unit_enrollment_view, "for result_id in resit_units": the ResitExam is saved
\* first and stays when the save of its UnitEnrollment raises
RECURSIVE EnrollResitUnits(_, _, _, _, _)
EnrollResitUnits(s, report, m, resit_units, acc) ==
    IF resit_units = <<>>
    THEN acc
    ELSE LET result == Head(resit_units)
             resit  == ResitExam_save(NewResitExam(s, result, m), acc.db)
             saved  == UnitEnrollment_save(
                           NewEnrollment(s, report, result.programme_unit, m,
                                         "resit", "pending", Len(resit.db.resits)),
                           0, resit.db)
         IN IF result.student # s     \* get_object_or_404(..., student=student)
            THEN Progress(acc.db, {"not_found"}, acc.count)
            ELSE IF resit.errs # {}
            THEN Progress(acc.db, resit.errs, acc.count)
            ELSE IF saved.errs # {}
            THEN Progress(resit.db, saved.errs, acc.count)
            ELSE EnrollResitUnits(s, report, m, Tail(resit_units),
                                  Progress(saved.db, {}, acc.count + 1))

\* the approved SemesterReport rows of (s, to_sem)
ApprovedReports(s, to_sem) ==
    {i \in DOMAIN reports :
        /\ reports[i].student = s
        /\ reports[i].to_semester = to_sem
        /\ reports[i].status = "approved"}

\* the tables after a unit_enrollment_view POST that got past the view's own
\* checks, with the error that ended it and enrolled_count
unit_enrollment_post(s, semester_report, m, selected_units, resit_units) ==
    LET db0    == Tables(enrollments, registrations, resits)
        normal == EnrollSelectedUnits(s, semester_report, m, selected_units,
                                      Progress(db0, {}, 0))
    IN IF normal.errs # {}
       THEN normal
       ELSE EnrollResitUnits(s, semester_report, m, resit_units, normal)

\* views.unit_enrollment_view, POST; is_open is what
\* enrollment_period.is_enrollment_open() answers at the time of the request
unit_enrollment_view(s, selected_units, resit_units, is_open) ==
    LET current_semester == CurrentSemester
        approved == ApprovedReports(s, current_semester)
        done == unit_enrollment_post(s, FirstReport(approved), current_semester,
                                     selected_units, resit_units)
    IN /\ UNCHANGED progressionVars
       /\ IF current_semester = 0
          THEN /\ UNCHANGED <<enrolVars, procs>>
               /\ last' = Answer("unit_enrollment_view", s, 0, 0, {"no_active_semester"})
          ELSE IF approved = {}
          THEN /\ UNCHANGED <<enrolVars, procs>>
               /\ last' = Answer("unit_enrollment_view", s, current_semester, 0, {"must_report"})
          ELSE IF ~is_open
          THEN /\ UNCHANGED <<enrolVars, procs>>
               /\ last' = Answer("unit_enrollment_view", s, current_semester, 0, {"enrollment_closed"})
          ELSE /\ Len(done.db.enrollments) <= MaxEnrollments
               /\ enrollments' = done.db.enrollments
               /\ registrations' = done.db.registrations
               /\ resits' = done.db.resits
               /\ last' = Answer("unit_enrollment_view", s, current_semester,
                                 done.count, done.errs)

\* what utils.enroll_student_in_unit answers on the stored tables
enroll_student_in_unit_outcome(s, u, m, semester_report, type) ==
    LET db0 == Tables(enrollments, registrations, resits)
    IN IF ActiveEnrollments(enrollments, s, u, m, 0) # {}
       THEN Outcome(db0, {"already_enrolled"})
       ELSE UnitEnrollment_save(
                NewEnrollment(s, semester_report, u, m, type, "pending", 0), 0, db0)

\* utils.enroll_student_in_unit(student, programme_unit, semester,
\* semester_report, enrollment_type)
enroll_student_in_unit(s, u, m, semester_report, type) ==
    LET done == enroll_student_in_unit_outcome(s, u, m, semester_report, type)
    IN /\ Len(done.db.enrollments) <= MaxEnrollments
       /\ enrollments' = done.db.enrollments
       /\ registrations' = done.db.registrations
       /\ resits' = done.db.resits
       /\ last' = Answer("enroll_student_in_unit", s, m,
                         Len(done.db.enrollments) - Len(enrollments), done.errs)
       /\ UNCHANGED progressionVars

\* UnitEnrollmentAdmin add form: ModelAdmin.save_model calls obj.save()
AdminAddEnrollment(s, u, m, semester_report, type, status) ==
    LET done == UnitEnrollment_save(
                    NewEnrollment(s, semester_report, u, m, type, status, 0), 0,
                    Tables(enrollments, registrations, resits))
    IN /\ Len(done.db.enrollments) <= MaxEnrollments
       /\ enrollments' = done.db.enrollments
       /\ registrations' = done.db.registrations
       /\ resits' = done.db.resits
       /\ last' = Answer("admin_add_enrollment", s, m,
                         Len(done.db.enrollments) - Len(enrollments), done.errs)
       /\ UNCHANGED progressionVars

\* UnitEnrollmentAdmin change form: the stored row is saved again with the
\* enrollment_type and status chosen in the form
AdminChangeEnrollment(pk, type, status) ==
    /\ pk \in DOMAIN enrollments
    /\ LET e == [enrollments[pk] EXCEPT !.enrollment_type = type, !.status = status]
           done == UnitEnrollment_save(e, pk,
                       Tables(enrollments, registrations, resits))
       IN /\ enrollments' = done.db.enrollments
          /\ registrations' = done.db.registrations
          /\ resits' = done.db.resits
          /\ last' = Answer("admin_change_enrollment", e.student, e.semester, 0,
                            done.errs)
    /\ UNCHANGED progressionVars

\* UnitEnrollmentAdmin.approve_enrollments(request, queryset)
approve_enrollments(Q) ==
    /\ Q # {} /\ Q \subseteq DOMAIN enrollments
    /\ enrollments' = QuerySetUpdateStatus(enrollments, Q, "approved")
    /\ last' = Answer("approve_enrollments", 0, 0, 0, {})
    /\ UNCHANGED <<registrations, resits>>
    /\ UNCHANGED progressionVars

\* UnitEnrollmentAdmin.reject_enrollments(request, queryset)
reject_enrollments(Q) ==
    /\ Q # {} /\ Q \subseteq DOMAIN enrollments
    /\ enrollments' = QuerySetUpdateStatus(enrollments, Q, "rejected")
    /\ last' = Answer("reject_enrollments", 0, 0, 0, {})
    /\ UNCHANGED <<registrations, resits>>
    /\ UNCHANGED progressionVars

(***************************************************************************)
(* Enrolment engine: initial states and next-state relation                *)
(***************************************************************************)
\* the students whose enrolments the engine is exercised with
EnrollingStudents == {1}

\* the stored reports: student 1 filed twice for semester 1, the first report
\* was rejected and the second approved; student 2 is approved into semester 2
EnrollReports ==
    << [NewReport(1, 1, <<1, "2">>, 0, "rejected") EXCEPT !.is_eligible = TRUE],
       [NewReport(1, 1, <<1, "2">>, 0, "approved") EXCEPT !.is_eligible = TRUE],
       [NewReport(2, 2, <<1, "2">>, 0, "approved") EXCEPT !.is_eligible = TRUE] >>

\* the semesters enrolments are requested for
EnrollSemesters == {1}

\* the stored results: student 1 failed unit 1 and passed unit 2, student 2
\* failed unit 1
EnrollResults ==
    { [student |-> 1, programme_unit |-> 1, semester |-> 1, is_passed |-> FALSE,
       total_marks |-> Dec(30), grade |-> "E", grade_point |-> Dec(0),
       is_supplementary |-> FALSE, remarks |-> <<>>],
      [student |-> 1, programme_unit |-> 2, semester |-> 1, is_passed |-> TRUE,
       total_marks |-> Dec(65), grade |-> "B", grade_point |-> Dec(3),
       is_supplementary |-> FALSE, remarks |-> <<>>],
      [student |-> 2, programme_unit |-> 1, semester |-> 1, is_passed |-> FALSE,
       total_marks |-> Dec(35), grade |-> "E", grade_point |-> Dec(0),
       is_supplementary |-> FALSE, remarks |-> <<>>] }

\* the dean-approved allocations: units 1 and 2 are offered in semester 1,
\* unit 3 is not offered
EnrollAllocations == {<<1, 1>>, <<2, 1>>}

\* the sequences over S of length at most n
SeqsUpTo(S, n) == UNION {[1..k -> S] : k \in 0..n}

\* the statuses and types the admin forms are exercised with
AdminEnrollmentStatus == {"approved", "rejected"}

\* the student's own results
ResultsOf(s) == {r \in EnrollResults : r.student = s}

InitEnroll ==
    /\ student = [s \in Students |-> [current_year |-> 1, current_semester |-> "1"]]
    /\ total_semesters = 8
    /\ results = EnrollResults
    /\ gpas = {}
    /\ is_current = [m \in SemesterIds |-> m = 1]
    /\ year_is_current = [y \in AcademicYears |-> y = 1]
    /\ reports = EnrollReports
    /\ signals_ready = FALSE
    /\ refused = [s \in Students |-> FALSE]
    /\ last = NoRequest
    /\ allocations = EnrollAllocations
    /\ enrollments = <<>>
    /\ registrations = <<>>
    /\ resits = <<>>
    /\ procs = NoWorkers

\* creating enrolments: the student view, the utility, the admin add form left
\* at its default status, and the rejections that free a (student, unit,
\* semester) for a new request
NextEnroll ==
    \/ \E s \in EnrollingStudents, is_open \in BOOLEAN,
          selected_units \in SeqsUpTo(ProgrammeUnits, MaxSelected) :
            \E resit_units \in SeqsUpTo(ResultsOf(s), MaxSelected) :
              /\ Len(selected_units) + Len(resit_units) <= MaxSelected
              /\ unit_enrollment_view(s, selected_units, resit_units, is_open)
    \/ \E s \in EnrollingStudents, u \in ProgrammeUnits, m \in EnrollSemesters,
          r \in DOMAIN EnrollReports, type \in ENROLLMENT_TYPE :
            enroll_student_in_unit(s, u, m, r, type)
    \/ \E s \in EnrollingStudents, u \in ProgrammeUnits, m \in EnrollSemesters,
          r \in DOMAIN EnrollReports, type \in ENROLLMENT_TYPE :
            AdminAddEnrollment(s, u, m, r, type, "pending")
    \/ \E Q \in SUBSET (1..MaxEnrollments) : reject_enrollments(Q)

SpecEnroll == InitEnroll /\ [][NextEnroll]_vars

\* deciding enrolments: requests made with the student's approved report, the
\* admin add form filled in as approved, the admin change form and the admin
\* bulk actions
NextDecide ==
    \/ \E s \in EnrollingStudents, u \in ProgrammeUnits, m \in EnrollSemesters,
          type \in ENROLLMENT_TYPE :
            enroll_student_in_unit(s, u, m, FirstReport(ApprovedReports(s, m)), type)
    \/ \E s \in EnrollingStudents, u \in ProgrammeUnits, m \in EnrollSemesters,
          type \in ENROLLMENT_TYPE :
            AdminAddEnrollment(s, u, m, FirstReport(ApprovedReports(s, m)), type,
                               "approved")
    \/ \E pk \in 1..MaxEnrollments, type \in ENROLLMENT_TYPE,
          status \in AdminEnrollmentStatus :
            AdminChangeEnrollment(pk, type, status)
    \/ \E Q \in SUBSET (1..MaxEnrollments) : approve_enrollments(Q)
    \/ \E Q \in SUBSET (1..MaxEnrollments) : reject_enrollments(Q)

SpecDecide == InitEnroll /\ [][NextDecide]_vars

(***************************************************************************)
(* Resit exams: registration                                               *)
(***************************************************************************)
MaxResits == 2

\* every variable but last, resits and results
resitFrame == <<student, total_semesters, gpas, is_current, year_is_current,
                reports, signals_ready, refused, allocations, enrollments,
                registrations, procs>>

\* Model.full_clean of ResitExam: clean and validate_unique (the field checks
\* pass for every instance the requests below build)
ResitExam_full_clean(x, pk, rows) ==
    ResitExam_clean(x, pk, rows) \cup ResitExam_validate_unique(x, pk, rows)

\* ResitExam.objects.filter(student, original_result, resit_semester)
ExistingResits(rows, s, result, m) ==
    {i \in DOMAIN rows :
        /\ rows[i].student = s
        /\ rows[i].original_result = ResultPk(result)
        /\ rows[i].resit_semester = m}

\* ResitExam.objects.create without the validation of ResitExam.save
register_for_resit_Unchecked(s, semester_result, resit_semester) ==
    /\ Len(resits) < MaxResits
    /\ resits' = Append(resits, NewResitExam(s, semester_result, resit_semester))
    /\ last' = Answer("register_for_resit", s, resit_semester, 1, {})
    /\ UNCHANGED <<results, resitFrame>>

\* utils.register_for_resit(student, semester_result, resit_semester)
register_for_resit(s, semester_result, resit_semester) ==
    LET existing == ExistingResits(resits, s, semester_result, resit_semester)
        saved == ResitExam_save(
                     NewResitExam(s, semester_result, resit_semester),
                     Tables(enrollments, registrations, resits))
    IN /\ UNCHANGED <<results, resitFrame>>
       /\ IF existing # {}
          THEN /\ UNCHANGED resits
               /\ last' = Answer("register_for_resit", s, resit_semester, 0,
                                 {"already_registered"})
          ELSE /\ saved.errs = {} => Len(resits) < MaxResits
               /\ resits' = saved.db.resits
               /\ last' = Answer("register_for_resit", s, resit_semester,
                                 IF saved.errs = {} THEN 1 ELSE 0, saved.errs)

\* resit_exam_registration, "for result_id in selected_results": every save
\* commits on its own; the first exception leaves the loop
RECURSIVE RegisterSelectedResits(_, _, _, _)
RegisterSelectedResits(s, m, selected_results, acc) ==
    IF selected_results = <<>>
    THEN acc
    ELSE LET result == Head(selected_results)
             saved  == ResitExam_save(NewResitExam(s, result, m), acc.db)
         IN IF result.student # s     \* get_object_or_404(..., student=student)
            THEN Progress(acc.db, {"not_found"}, acc.count)
            ELSE IF saved.errs # {}
            THEN Progress(acc.db, saved.errs, acc.count)
            ELSE RegisterSelectedResits(s, m, Tail(selected_results),
                                        Progress(saved.db, {}, acc.count + 1))

\* views.resit_exam_registration, POST; is_open is what
\* EnrollmentPeriod.is_resit_enrollment_open answers
resit_exam_registration(s, selected_results, is_open) ==
    LET current_semester == CurrentSemester
        done == RegisterSelectedResits(s, current_semester, selected_results,
                    Progress(Tables(enrollments, registrations, resits), {}, 0))
    IN /\ UNCHANGED <<results, resitFrame>>
       /\ IF current_semester = 0
          THEN /\ UNCHANGED resits
               /\ last' = Answer("resit_exam_registration", s, 0, 0,
                                 {"no_active_semester"})
          ELSE IF ApprovedReports(s, current_semester) = {}
          THEN /\ UNCHANGED resits
               /\ last' = Answer("resit_exam_registration", s, current_semester,
                                 0, {"must_report"})
          ELSE IF ~is_open
          THEN /\ UNCHANGED resits
               /\ last' = Answer("resit_exam_registration", s, current_semester,
                                 0, {"enrollment_closed"})
          ELSE /\ Len(done.db.resits) <= MaxResits
               /\ resits' = done.db.resits
               /\ last' = Answer("resit_exam_registration", s, current_semester,
                                 done.count, done.errs)

\* ResitExamAdmin add form: ModelAdmin.save_model calls obj.save()
AdminAddResit(s, result, m) ==
    LET saved == ResitExam_save(NewResitExam(s, result, m),
                                Tables(enrollments, registrations, resits))
    IN /\ saved.errs = {} => Len(resits) < MaxResits
       /\ resits' = saved.db.resits
       /\ last' = Answer("admin_add_resit", s, m,
                         IF saved.errs = {} THEN 1 ELSE 0, saved.errs)
       /\ UNCHANGED <<results, resitFrame>>

\* the dean-approved allocations of the resit specifications: unit 1 is
\* offered in both semesters, unit 2 in semester 1 only
ResitAllocations == {<<1, 1>>, <<1, 2>>, <<2, 1>>}

InitRegister ==
    /\ student = [s \in Students |-> [current_year |-> 1, current_semester |-> "1"]]
    /\ total_semesters = 8
    /\ results = EnrollResults
    /\ gpas = {}
    /\ is_current = [m \in SemesterIds |-> m = 1]
    /\ year_is_current = [y \in AcademicYears |-> y = 1]
    /\ reports = EnrollReports
    /\ signals_ready = FALSE
    /\ refused = [s \in Students |-> FALSE]
    /\ last = NoRequest
    /\ allocations = ResitAllocations
    /\ enrollments = <<>>
    /\ registrations = <<>>
    /\ resits = <<>>
    /\ procs = NoWorkers

NextRegister ==
    \/ \E s \in Students, result \in EnrollResults, m \in SemesterIds :
          register_for_resit(s, result, m)
    \/ \E s \in Students, is_open \in BOOLEAN,
          selected \in SeqsUpTo(EnrollResults, MaxSelected) :
            resit_exam_registration(s, selected, is_open)
    \/ \E s \in Students, result \in EnrollResults, m \in SemesterIds :
          AdminAddResit(s, result, m)

SpecRegister == InitRegister /\ [][NextRegister]_vars

(***************************************************************************)
(* Resit exams: marking and completion                                     *)
(***************************************************************************)
RESIT_STATUS == {"registered", "approved", "rejected", "completed", "missed"}

\* UnitGradingSystem rows of the unit: grade, min_marks, max_marks, grade_point
UnitGradingSystem ==
    { [grade |-> "A", min_marks |-> Dec(70), max_marks |-> Dec(100), grade_point |-> Dec(4)],
      [grade |-> "B", min_marks |-> Dec(60), max_marks |-> Dec(69),  grade_point |-> Dec(3)],
      [grade |-> "C", min_marks |-> Dec(50), max_marks |-> Dec(59),  grade_point |-> Dec(2)],
      [grade |-> "D", min_marks |-> Dec(40), max_marks |-> Dec(49),  grade_point |-> Dec(1)],
      [grade |-> "E", min_marks |-> Dec(0),  max_marks |-> Dec(39),  grade_point |-> Dec(0)] }

\* "resit_grade_point >= 2.0" in ResitExam.save
PassGradePoint == Dec(2)

\* UnitGradingSystem.objects.filter(min_marks__lte=marks, max_marks__gte=marks)
GradingRules(marks) ==
    {g \in UnitGradingSystem : g.min_marks <= marks /\ g.max_marks >= marks}

\* .first() under UnitGradingSystem.Meta ordering -min_marks
FirstGrading(S) == CHOOSE g \in S : \A h \in S : h.min_marks <= g.min_marks

\* ResitExam.calculate_resit_grade, up to its self.save()
calculate_resit_grade(x) ==
    IF x.resit_marks # NoMarks /\ GradingRules(x.resit_marks) # {}
    THEN LET grading == FirstGrading(GradingRules(x.resit_marks))
         IN [x EXCEPT !.resit_grade = grading.grade,
                      !.resit_grade_point = grading.grade_point]
    ELSE x

\* the remark ResitExam.save writes to the original result
ResitRemark(x) ==
    <<"Resit completed in", x.resit_semester, "Original:", x.original_marks>>

\* a write-back that adds its remark to the remarks already stored
OverwriteOriginalResult_Appending(x, rows) ==
    {IF ResultPk(r) = x.original_result
     THEN [r EXCEPT !.total_marks = x.resit_marks,
                    !.grade = x.resit_grade,
                    !.grade_point = x.resit_grade_point,
                    !.is_passed = (x.resit_grade_point >= PassGradePoint),
                    !.is_supplementary = TRUE,
                    !.remarks = r.remarks \o ResitRemark(x)]
     ELSE r : r \in rows}

\* the body of "if self.status == 'completed' and self.resit_marks is not
\* None" in ResitExam.save: the SemesterResults rows after original_result.save()
OverwriteOriginalResult(x, rows) ==
    {IF ResultPk(r) = x.original_result
     THEN [r EXCEPT !.total_marks = x.resit_marks,
                    !.grade = x.resit_grade,
                    !.grade_point = x.resit_grade_point,
                    !.is_passed = (x.resit_grade_point >= PassGradePoint),
                    !.is_supplementary = TRUE,
                    !.remarks = ResitRemark(x)]
     ELSE r : r \in rows}

\* ResitExamAdmin change form of row pk: the form's status, resit_marks and
\* (resit_grade, resit_grade_point) are set on the stored row and obj.save()
\* runs inside the admin's transaction. full_clean may refuse the row; a
\* connected post_save receiver re-enters save through calculate_resit_grade
\* without end; with resit_grade_point None the comparison with 2.0 raises
\* TypeError. Each of these rolls the request back.
AdminChangeResit(pk, status, marks, grade) ==
    /\ pk \in DOMAIN resits
    /\ LET x == [resits[pk] EXCEPT !.status = status, !.resit_marks = marks,
                                   !.resit_grade = grade[1],
                                   !.resit_grade_point = grade[2]]
           errs == ResitExam_full_clean(x, pk, resits)
           completes == status = "completed" /\ marks # NoMarks
       IN IF errs # {}
          THEN /\ UNCHANGED <<resits, results>>
               /\ last' = Answer("admin_change_resit", x.student, x.resit_semester, pk, errs)
          ELSE IF signals_ready /\ completes /\ GradingRules(marks) # {}
          THEN /\ UNCHANGED <<resits, results>>
               /\ last' = Answer("admin_change_resit", x.student, x.resit_semester, pk, {"recursion_error"})
          ELSE IF completes /\ x.resit_grade_point = NoMarks
          THEN /\ UNCHANGED <<resits, results>>
               /\ last' = Answer("admin_change_resit", x.student, x.resit_semester, pk, {"type_error"})
          ELSE /\ resits' = [resits EXCEPT ![pk] = x]
               /\ results' = IF completes
                             THEN OverwriteOriginalResult(x, results)
                             ELSE results
               /\ last' = Answer("admin_change_resit", x.student, x.resit_semester, pk, {})
    /\ UNCHANGED resitFrame

\* ResitExamAdmin.approve_resits(request, queryset)
approve_resits(Q) ==
    /\ Q # {} /\ Q \subseteq DOMAIN resits
    /\ resits' = QuerySetUpdateStatus(resits, Q, "approved")
    /\ last' = Answer("approve_resits", 0, 0, 0, {})
    /\ UNCHANGED <<results, resitFrame>>

\* ResitExamAdmin.mark_as_completed(request, queryset)
mark_as_completed(Q) ==
    /\ Q # {} /\ Q \subseteq DOMAIN resits
    /\ resits' = QuerySetUpdateStatus(resits, Q, "completed")
    /\ last' = Answer("mark_as_completed", 0, 0, 0, {})
    /\ UNCHANGED <<results, resitFrame>>

\* the result the resit is taken for: student 1 failed unit 1 in semester 1
ResitResult == CHOOSE r \in EnrollResults : r.student = 1 /\ ~r.is_passed

\* the values the admin change form is exercised with: resit marks (59.50
\* lies between the bands C and B), and the (resit_grade, resit_grade_point)
\* pair typed next to them
ResitMarksChoices == {NoMarks, Dec(55), Dec(59) + 50, Dec(65)}
ResitGradeChoices == {<<"", NoMarks>>, <<"C", Dec(2)>>, <<"B", Dec(3)>>}

\* student 1 has registered, through register_for_resit, for the resit of the
\* failed unit in semester 2
InitComplete ==
    /\ student = [s \in Students |-> [current_year |-> 1, current_semester |-> "1"]]
    /\ total_semesters = 8
    /\ results = EnrollResults
    /\ gpas = {}
    /\ is_current = [m \in SemesterIds |-> m = 1]
    /\ year_is_current = [y \in AcademicYears |-> y = 1]
    /\ reports = EnrollReports
    /\ signals_ready = FALSE
    /\ refused = [s \in Students |-> FALSE]
    /\ last = NoRequest
    /\ allocations = ResitAllocations
    /\ enrollments = <<>>
    /\ registrations = <<>>
    /\ resits = <<NewResitExam(1, ResitResult, 2)>>
    /\ procs = NoWorkers

NextComplete ==
    \/ \E pk \in DOMAIN resits, status \in RESIT_STATUS,
          marks \in ResitMarksChoices, grade \in ResitGradeChoices :
            AdminChangeResit(pk, status, marks, grade)
    \/ \E Q \in SUBSET (DOMAIN resits) : approve_resits(Q)
    \/ \E Q \in SUBSET (DOMAIN resits) : mark_as_completed(Q)

SpecComplete == InitComplete /\ [][NextComplete]_vars

(***************************************************************************)
(* Calendar maintenance, one request at a time. The rows that exist are    *)
(* the domains of year_is_current and is_current.                          *)
(***************************************************************************)
\* every variable the calendar requests leave alone
calendarFrame == <<student, total_semesters, results, gpas, reports,
                   signals_ready, refused, enrolVars, procs>>

\* AcademicYear.clean of a row pk with the flag value
AcademicYear_clean(pk, flag) ==
    IF flag /\ \E y \in DOMAIN year_is_current : y # pk /\ year_is_current[y]
    THEN {"one_current_year"} ELSE {}

\* Semester.clean of a row pk with the flag value
Semester_clean(pk, flag) ==
    IF flag /\ \E m \in DOMAIN is_current : m # pk /\ is_current[m]
    THEN {"one_current_semester"} ELSE {}

\* AcademicYear.save skipping full_clean
SaveAcademicYear_NoClean(pk, flag, op) ==
    /\ year_is_current' = [y \in DOMAIN year_is_current \cup {pk} |->
                              IF y = pk THEN flag ELSE year_is_current[y]]
    /\ last' = Answer(op, 0, pk, 0, {})
    /\ UNCHANGED <<is_current, calendarFrame>>

\* AcademicYearForm.is_valid() and form.save(): the form validation and
\* AcademicYear.save both run full_clean, so clean refuses a second current row
SaveAcademicYear(pk, flag, op) ==
    LET errs == AcademicYear_clean(pk, flag)
    IN /\ year_is_current' =
             IF errs # {} THEN year_is_current
             ELSE [y \in DOMAIN year_is_current \cup {pk} |->
                      IF y = pk THEN flag ELSE year_is_current[y]]
       /\ last' = Answer(op, 0, pk, 0, errs)
       /\ UNCHANGED <<is_current, calendarFrame>>

\* views.add_academic_year, POST (and the AcademicYearAdmin add form)
add_academic_year(pk, flag) ==
    /\ pk \notin DOMAIN year_is_current
    /\ SaveAcademicYear(pk, flag, "add_academic_year")

\* views.update_academic_year, POST (and the AcademicYearAdmin change form)
update_academic_year(pk, flag) ==
    /\ pk \in DOMAIN year_is_current
    /\ SaveAcademicYear(pk, flag, "update_academic_year")

\* views.delete_academic_year, POST: the year's semesters go with it
\* (on_delete=CASCADE)
delete_academic_year(pk) ==
    /\ pk \in DOMAIN year_is_current
    /\ year_is_current' = [y \in DOMAIN year_is_current \ {pk} |-> year_is_current[y]]
    /\ is_current' = [m \in {n \in DOMAIN is_current : SemesterYear(n) # pk} |->
                         is_current[m]]
    /\ last' = Answer("delete_academic_year", 0, pk, 0, {})
    /\ UNCHANGED calendarFrame

\* views.set_current_academic_year
set_current_academic_year(pk) ==
    /\ pk \in DOMAIN year_is_current
    /\ year_is_current' = [y \in DOMAIN year_is_current |-> y = pk]
    /\ last' = Answer("set_current_academic_year", 0, pk, 0, {})
    /\ UNCHANGED <<is_current, calendarFrame>>

\* SemesterForm.is_valid() and form.save(): the form validation runs
\* full_clean, so Semester.clean refuses a second current row
SaveSemester(pk, flag, op) ==
    LET errs == Semester_clean(pk, flag)
    IN /\ is_current' =
             IF errs # {} THEN is_current
             ELSE [m \in DOMAIN is_current \cup {pk} |->
                      IF m = pk THEN flag ELSE is_current[m]]
       /\ last' = Answer(op, 0, pk, 0, errs)
       /\ UNCHANGED <<year_is_current, calendarFrame>>

\* views.add_semester, POST (and the SemesterAdmin add form)
add_semester(pk, flag) ==
    /\ pk \notin DOMAIN is_current
    /\ SemesterYear(pk) \in DOMAIN year_is_current
    /\ SaveSemester(pk, flag, "add_semester")

\* views.add_semester_ajax: the row is built with is_current=False
add_semester_ajax(pk) ==
    /\ pk \notin DOMAIN is_current
    /\ SemesterYear(pk) \in DOMAIN year_is_current
    /\ SaveSemester(pk, FALSE, "add_semester_ajax")

\* views.update_semester, POST (and the SemesterAdmin change form)
update_semester(pk, flag) ==
    /\ pk \in DOMAIN is_current
    /\ SaveSemester(pk, flag, "update_semester")

\* views.update_semester_ajax: the row is saved with the is_current it was
\* read with
update_semester_ajax(pk) ==
    /\ pk \in DOMAIN is_current
    /\ is_current' = [is_current EXCEPT ![pk] = is_current[pk]]
    /\ last' = Answer("update_semester_ajax", 0, pk, 0, {})
    /\ UNCHANGED <<year_is_current, calendarFrame>>

\* views.backup_set_current_semester
backup_set_current_semester(pk) ==
    /\ pk \in DOMAIN is_current
    /\ is_current' = [m \in DOMAIN is_current |-> m = pk]
    /\ last' = Answer("backup_set_current_semester", 0, pk, 0, {})
    /\ UNCHANGED <<year_is_current, calendarFrame>>

\* views.delete_semester, POST
delete_semester(pk) ==
    /\ pk \in DOMAIN is_current
    /\ is_current' = [m \in DOMAIN is_current \ {pk} |-> is_current[m]]
    /\ last' = Answer("delete_semester", 0, pk, 0, {})
    /\ UNCHANGED <<year_is_current, calendarFrame>>

\* views.delete_semester_ajax: the current semester is not deleted
delete_semester_ajax(pk) ==
    /\ pk \in DOMAIN is_current
    /\ is_current' = IF is_current[pk] THEN is_current
                     ELSE [m \in DOMAIN is_current \ {pk} |-> is_current[m]]
    /\ last' = Answer("delete_semester_ajax", 0, pk, 0,
                      IF is_current[pk] THEN {"is_current"} ELSE {})
    /\ UNCHANGED <<year_is_current, calendarFrame>>

\* an empty calendar
InitCalendar ==
    /\ student = [s \in Students |-> [current_year |-> 1, current_semester |-> "1"]]
    /\ total_semesters = 8
    /\ results = {}
    /\ gpas = {}
    /\ is_current = <<>>
    /\ year_is_current = <<>>
    /\ reports = <<>>
    /\ signals_ready = FALSE
    /\ refused = [s \in Students |-> FALSE]
    /\ last = NoRequest
    /\ allocations = {}
    /\ enrollments = <<>>
    /\ registrations = <<>>
    /\ resits = <<>>
    /\ procs = NoWorkers

NextCalendar ==
    \/ \E pk \in AcademicYears, flag \in BOOLEAN : add_academic_year(pk, flag)
    \/ \E pk \in AcademicYears, flag \in BOOLEAN : update_academic_year(pk, flag)
    \/ \E pk \in AcademicYears : delete_academic_year(pk)
    \/ \E pk \in AcademicYears : set_current_academic_year(pk)
    \/ \E pk \in SemesterIds, flag \in BOOLEAN : add_semester(pk, flag)
    \/ \E pk \in SemesterIds : add_semester_ajax(pk)
    \/ \E pk \in SemesterIds, flag \in BOOLEAN : update_semester(pk, flag)
    \/ \E pk \in SemesterIds : update_semester_ajax(pk)
    \/ \E pk \in SemesterIds : set_current_semester(pk) /\ UNCHANGED <<enrolVars, procs>>
    \/ \E pk \in SemesterIds : backup_set_current_semester(pk)
    \/ \E pk \in SemesterIds : delete_semester(pk)
    \/ \E pk \in SemesterIds : delete_semester_ajax(pk)

SpecCalendar == InitCalendar /\ [][NextCalendar]_vars

(***************************************************************************)
(* Requests in flight. No view opens a transaction, so every ORM statement *)
(* commits on its own and the statements of two requests interleave.       *)
(***************************************************************************)
\* worker p moves to statement pc with the locals given
Goto(p, pc, locals) == procs' = [procs EXCEPT ![p] = Worker(pc, locals)]

\* worker p is at statement pc
At(p, pc) == procs[p].pc = pc

\* the variables a change of the current semester or year leaves alone
swapFrame == <<student, total_semesters, results, gpas, reports, signals_ready,
               refused, enrolVars>>

\* set_current_semester, "Semester.objects.filter(is_current=True)
\* .update(is_current=False)"; locals: <<semester pk, academic year pk>>
set_current_semester_unset(p, pk) ==
    /\ At(p, "idle") /\ pk \in DOMAIN is_current
    /\ is_current' = [m \in DOMAIN is_current |-> FALSE]
    /\ Goto(p, "semester.save", <<pk, SemesterYear(pk)>>)
    /\ UNCHANGED <<year_is_current, last, swapFrame>>

\* set_current_semester, "semester.is_current = True; semester.save()"
\* (Semester does not override save: no full_clean)
set_current_semester_save(p) ==
    /\ At(p, "semester.save")
    /\ is_current' = [is_current EXCEPT ![procs[p].locals[1]] = TRUE]
    /\ Goto(p, "year.update", procs[p].locals)
    /\ UNCHANGED <<year_is_current, last, swapFrame>>

\* "AcademicYear.objects.filter(is_current=True).update(is_current=False)":
\* the second half of set_current_semester (p is at year.update) or the start
\* of set_current_academic_year(pk) (p is idle)
set_current_academic_year_unset(p, pk) ==
    /\ \/ At(p, "year.update") /\ pk = procs[p].locals[2]
       \/ At(p, "idle") /\ pk \in DOMAIN year_is_current
    /\ year_is_current' = [y \in DOMAIN year_is_current |-> FALSE]
    /\ Goto(p, "year.full_clean", <<IF At(p, "idle") THEN 0 ELSE procs[p].locals[1], pk>>)
    /\ UNCHANGED <<is_current, last, swapFrame>>

\* the view that worker p is running, by its locals
SwapView(p) ==
    IF procs[p].locals[1] = 0 THEN "set_current_academic_year"
    ELSE "set_current_semester"

\* "academic_year.is_current = True; academic_year.save()", the full_clean
\* of AcademicYear.save: its query runs before the UPDATE
AcademicYear_save_full_clean(p) ==
    /\ At(p, "year.full_clean")
    /\ LET errs == AcademicYear_clean(procs[p].locals[2], TRUE)
       IN IF errs # {}
          THEN /\ Goto(p, "idle", <<>>)
               /\ last' = Answer(SwapView(p), 0, procs[p].locals[2], 0, errs)
          ELSE /\ Goto(p, "year.save", procs[p].locals)
               /\ UNCHANGED last
    /\ UNCHANGED <<is_current, year_is_current, swapFrame>>

\* the UPDATE of AcademicYear.save
AcademicYear_save_update(p) ==
    /\ At(p, "year.save")
    /\ year_is_current' = [year_is_current EXCEPT ![procs[p].locals[2]] = TRUE]
    /\ Goto(p, "idle", <<>>)
    /\ last' = Answer(SwapView(p), 0, procs[p].locals[2], 0, {})
    /\ UNCHANGED <<is_current, swapFrame>>

\* semester 1 of academic year 1 is current, semester 2 of year 2 is not
InitSwap ==
    /\ student = [s \in Students |-> [current_year |-> 1, current_semester |-> "1"]]
    /\ total_semesters = 8
    /\ results = {}
    /\ gpas = {}
    /\ is_current = [m \in SemesterIds |-> m = 1]
    /\ year_is_current = [y \in AcademicYears |-> y = 1]
    /\ reports = <<>>
    /\ signals_ready = FALSE
    /\ refused = [s \in Students |-> FALSE]
    /\ last = NoRequest
    /\ allocations = {}
    /\ enrollments = <<>>
    /\ registrations = <<>>
    /\ resits = <<>>
    /\ procs = NoWorkers

NextSwap ==
    \/ \E p \in Workers, pk \in SemesterIds : set_current_semester_unset(p, pk)
    \/ \E p \in Workers : set_current_semester_save(p)
    \/ \E p \in Workers, pk \in AcademicYears : set_current_academic_year_unset(p, pk)
    \/ \E p \in Workers : AcademicYear_save_full_clean(p)
    \/ \E p \in Workers : AcademicYear_save_update(p)

SpecSwap == InitSwap /\ [][NextSwap]_vars

(***************************************************************************)
(* Filing a report, statement by statement                                 *)
(***************************************************************************)
\* the variables a filing leaves alone
filingFrame == <<total_semesters, results, gpas, is_current, year_is_current,
                 signals_ready, enrolVars>>

\* the instance a filing request builds: semester_report_view files for the
\* current semester with its own count and target
FiledReport(op, s, m) ==
    IF op = "semester_report_view"
    THEN NewReport(s, m, ViewNextSemester(s), ViewFailedUnits(s), "pending")
    ELSE NewReport(s, m, calculate_next_semester_details(s),
                   get_student_eligibility_for_reporting(s)[2], "pending")

\* the check "existing report with status pending or approved" that opens
\* semester_report_view and create_semester_report, and for the latter the
\* eligibility check; locals: <<op, the instance>>
filing_check(p, op, s, m) ==
    LET r == FiledReport(op, s, m)
    IN /\ At(p, "idle")
       /\ op = "semester_report_view" => m = CurrentSemester
       /\ IF ExistingReports(s, m) # {}
          THEN /\ last' = Answer(op, s, m, r.failed_units_count, {"already_reported"})
               /\ UNCHANGED <<procs, refused>>
          ELSE IF op = "create_semester_report"
                  /\ ~get_student_eligibility_for_reporting(s)[1]
          THEN /\ last' = Answer(op, s, m, r.failed_units_count, {"ineligible"})
               /\ refused' = [refused EXCEPT ![s] = TRUE]
               /\ UNCHANGED procs
          ELSE /\ Goto(p, "report.full_clean", <<op, r>>)
               /\ UNCHANGED <<last, refused>>
       /\ UNCHANGED <<reports, student, filingFrame>>

\* SemesterReport.save of the new instance, up to full_clean: the queries of
\* clean run before the INSERT
filing_full_clean(p) ==
    /\ At(p, "report.full_clean")
    /\ LET op == procs[p].locals[1]
           r  == procs[p].locals[2]
           r1 == [r EXCEPT !.is_eligible = (r.failed_units_count <= MaxFailedUnits)]
           errs == SemesterReport_full_clean(r1, 0)
       IN IF errs # {}
          THEN /\ Goto(p, "idle", <<>>)
               /\ refused' = IF "ineligible" \in errs
                             THEN [refused EXCEPT ![r.student] = TRUE]
                             ELSE refused
               /\ last' = Answer(op, r.student, r.to_semester,
                                 r.failed_units_count, errs)
          ELSE /\ Goto(p, "report.insert", <<op, r1>>)
               /\ UNCHANGED <<last, refused>>
    /\ UNCHANGED <<reports, student, filingFrame>>

\* the INSERT of SemesterReport.save and the rest of save; SemesterReport.Meta
\* declares no unique constraint, so the table takes every row
filing_insert(p) ==
    /\ At(p, "report.insert")
    /\ Len(reports) < MaxReports
    /\ LET op == procs[p].locals[1]
           r1 == procs[p].locals[2]
       IN /\ reports' = Append(reports, r1)
          /\ student' = ProgressStudent(student, r1)
          /\ refused' = [refused EXCEPT ![r1.student] = FALSE]
          /\ last' = Answer(op, r1.student, r1.to_semester,
                            r1.failed_units_count, {})
    /\ Goto(p, "idle", <<>>)
    /\ UNCHANGED filingFrame

\* semester 1 is current and nobody has filed; the students have no failed
\* unit
InitFiling ==
    /\ student = [s \in Students |-> [current_year |-> 1, current_semester |-> "1"]]
    /\ total_semesters = 8
    /\ results = UNION {ResultRows(s, 0, 0) : s \in Students}
    /\ gpas = {}
    /\ is_current = [m \in SemesterIds |-> m = 1]
    /\ year_is_current = [y \in AcademicYears |-> y = 1]
    /\ reports = <<>>
    /\ signals_ready = FALSE
    /\ refused = [s \in Students |-> FALSE]
    /\ last = NoRequest
    /\ allocations = {}
    /\ enrollments = <<>>
    /\ registrations = <<>>
    /\ resits = <<>>
    /\ procs = NoWorkers

NextFiling ==
    \/ \E p \in Workers, op \in {"semester_report_view", "create_semester_report"},
          s \in ReportingStudents, m \in SemesterIds : filing_check(p, op, s, m)
    \/ \E p \in Workers : filing_full_clean(p)
    \/ \E p \in Workers : filing_insert(p)

SpecFiling == InitFiling /\ [][NextFiling]_vars

(***************************************************************************)
(* Approving through the change forms, statement by statement              *)
(***************************************************************************)
\* the variables an approval leaves alone
approvalFrame == <<total_semesters, results, gpas, is_current, year_is_current,
                   signals_ready, refused, allocations, resits>>

\* SemesterReport.save of row pk with status approved, up to full_clean;
\* locals: <<pk, the instance>>
approve_report_full_clean(p, pk) ==
    /\ At(p, "idle") /\ pk \in DOMAIN reports
    /\ LET r  == [reports[pk] EXCEPT !.status = "approved"]
           r1 == [r EXCEPT !.is_eligible = (r.failed_units_count <= MaxFailedUnits)]
           errs == SemesterReport_full_clean(r1, pk)
       IN IF errs # {}
          THEN /\ last' = Answer("admin_change_report", r.student, r.to_semester,
                                 r.failed_units_count, errs)
               /\ UNCHANGED procs
          ELSE /\ Goto(p, "report.update", <<pk, r1>>)
               /\ UNCHANGED last
    /\ UNCHANGED <<reports, student, enrollments, registrations, approvalFrame>>

\* the UPDATE of SemesterReport.save (super().save() and its post_save)
approve_report_update(p) ==
    /\ At(p, "report.update")
    /\ reports' = [reports EXCEPT ![procs[p].locals[1]] = procs[p].locals[2]]
    /\ student' = update_student_progression(student, procs[p].locals[2], FALSE)
    /\ Goto(p, "student.save", procs[p].locals)
    /\ UNCHANGED <<last, enrollments, registrations, approvalFrame>>

\* the tail of SemesterReport.save: the student is given the report's target
\* and saved
approve_report_student_save(p) ==
    /\ At(p, "student.save")
    /\ LET r1 == procs[p].locals[2]
       IN /\ student' = ProgressStudent(student, r1)
          /\ last' = Answer("admin_change_report", r1.student, r1.to_semester,
                            r1.failed_units_count, {})
    /\ Goto(p, "idle", <<>>)
    /\ UNCHANGED <<reports, enrollments, registrations, approvalFrame>>

\* UnitEnrollment.save of row pk with status approved, up to full_clean
approve_enrollment_full_clean(p, pk) ==
    /\ At(p, "idle") /\ pk \in DOMAIN enrollments
    /\ LET e == [enrollments[pk] EXCEPT !.status = "approved"]
           errs == UnitEnrollment_full_clean(e, pk, enrollments)
       IN IF errs # {}
          THEN /\ last' = Answer("admin_change_enrollment", e.student, e.semester,
                                 0, errs)
               /\ UNCHANGED procs
          ELSE /\ Goto(p, "enrollment.update", <<pk, e>>)
               /\ UNCHANGED last
    /\ UNCHANGED <<reports, student, enrollments, registrations, approvalFrame>>

\* the UPDATE of UnitEnrollment.save
approve_enrollment_update(p) ==
    /\ At(p, "enrollment.update")
    /\ enrollments' = [enrollments EXCEPT ![procs[p].locals[1]] = procs[p].locals[2]]
    /\ Goto(p, "registration.get", procs[p].locals)
    /\ UNCHANGED <<last, reports, student, registrations, approvalFrame>>

\* the UnitRegistration rows of the key of enrolment e
RegistrationsOf(e) ==
    {j \in DOMAIN registrations :
        /\ registrations[j].student = e.student
        /\ registrations[j].programme_unit = e.programme_unit
        /\ registrations[j].semester = e.semester}

\* UnitRegistration.objects.get_or_create, the get
get_or_create_get(p) ==
    /\ At(p, "registration.get")
    /\ LET e == procs[p].locals[2]
       IN IF RegistrationsOf(e) # {}
          THEN /\ Goto(p, "idle", <<>>)
               /\ last' = Answer("admin_change_enrollment", e.student, e.semester,
                                 0, {})
          ELSE /\ Goto(p, "registration.create", procs[p].locals)
               /\ UNCHANGED last
    /\ UNCHANGED <<reports, student, enrollments, registrations, approvalFrame>>

\* the INSERT of get_or_create on a table without the unique constraint
get_or_create_create_Unconstrained(p) ==
    /\ At(p, "registration.create")
    /\ LET e == procs[p].locals[2]
       IN /\ registrations' = get_or_create_AlwaysCreate(registrations, e.student,
                                  e.programme_unit, e.semester,
                                  e.enrollment_type \in {"resit", "retake"})
          /\ last' = Answer("admin_change_enrollment", e.student, e.semester, 1, {})
    /\ Goto(p, "idle", <<>>)
    /\ UNCHANGED <<reports, student, enrollments, approvalFrame>>

\* UnitRegistration.objects.get_or_create, the create: unique_together
\* (student, programme_unit, semester) refuses a second row of the key with
\* an IntegrityError, which get_or_create answers by getting the row
get_or_create_create(p) ==
    /\ At(p, "registration.create")
    /\ LET e == procs[p].locals[2]
       IN /\ registrations' = get_or_create(registrations, e.student,
                                  e.programme_unit, e.semester,
                                  e.enrollment_type \in {"resit", "retake"})
          /\ last' = Answer("admin_change_enrollment", e.student, e.semester,
                            Len(registrations') - Len(registrations), {})
    /\ Goto(p, "idle", <<>>)
    /\ UNCHANGED <<reports, student, enrollments, approvalFrame>>

\* student 1 has filed for semester 1 and waits for approval; student 2 has an
\* approved report and a pending enrolment for unit 1
InitApproval ==
    /\ student = [s \in Students |->
                    [current_year |-> 1,
                     current_semester |-> IF s = 2 THEN "2" ELSE "1"]]
    /\ total_semesters = 8
    /\ results = EnrollResults
    /\ gpas = {}
    /\ is_current = [m \in SemesterIds |-> m = 1]
    /\ year_is_current = [y \in AcademicYears |-> y = 1]
    /\ reports = << [NewReport(1, 1, <<1, "2">>, 0, "pending") EXCEPT !.is_eligible = TRUE],
                    [NewReport(2, 1, <<1, "2">>, 0, "approved") EXCEPT !.is_eligible = TRUE] >>
    /\ signals_ready = FALSE
    /\ refused = [s \in Students |-> FALSE]
    /\ last = NoRequest
    /\ allocations = EnrollAllocations
    /\ enrollments = <<NewEnrollment(2, 2, 1, 1, "normal", "pending", 0)>>
    /\ registrations = <<>>
    /\ resits = <<>>
    /\ procs = NoWorkers

NextApproval ==
    \/ \E p \in Workers, pk \in DOMAIN reports : approve_report_full_clean(p, pk)
    \/ \E p \in Workers : approve_report_update(p)
    \/ \E p \in Workers : approve_report_student_save(p)
    \/ \E p \in Workers, pk \in DOMAIN enrollments : approve_enrollment_full_clean(p, pk)
    \/ \E p \in Workers : approve_enrollment_update(p)
    \/ \E p \in Workers : get_or_create_get(p)
    \/ \E p \in Workers : get_or_create_create(p)

SpecApproval == InitApproval /\ [][NextApproval]_vars

(***************************************************************************)
(* Enrolling and registering for a resit, statement by statement           *)
(***************************************************************************)
\* the look-up that opens utils.enroll_student_in_unit, then
\* UnitEnrollment.save of the new instance up to full_clean; the view
\* unit_enrollment_view saves without the look-up. locals: <<op, the instance>>
enrollment_check(p, op, s, u, m, semester_report) ==
    LET e == NewEnrollment(s, semester_report, u, m, "normal", "pending", 0)
        errs == IF op = "enroll_student_in_unit"
                   /\ ActiveEnrollments(enrollments, s, u, m, 0) # {}
                THEN {"already_enrolled"}
                ELSE UnitEnrollment_full_clean(e, 0, enrollments)
    IN /\ At(p, "idle")
       /\ IF errs # {}
          THEN /\ last' = Answer(op, s, m, 0, errs)
               /\ UNCHANGED procs
          ELSE /\ Goto(p, "enrollment.insert", <<op, e>>)
               /\ UNCHANGED last
       /\ UNCHANGED <<enrollments, resits, registrations>>
       /\ UNCHANGED <<student, total_semesters, results, gpas, is_current,
                      year_is_current, reports, signals_ready, refused, allocations>>

\* the INSERT of UnitEnrollment.save: unique_together (student,
\* programme_unit, semester) refuses a second row of the key with an
\* IntegrityError, which both callers catch as "except Exception" and answer
\* with the storage error's own text behind a prefix
enrollment_insert(p) ==
    /\ At(p, "enrollment.insert")
    /\ Len(enrollments) < MaxEnrollments
    /\ LET op == procs[p].locals[1]
           e  == procs[p].locals[2]
       IN IF UnitEnrollment_validate_unique(e, 0, enrollments) # {}
          THEN /\ UNCHANGED enrollments
               /\ last' = Answer(op, e.student, e.semester, 0, {"integrity_error"})
          ELSE /\ enrollments' = Append(enrollments, e)
               /\ last' = Answer(op, e.student, e.semester, 1, {})
    /\ Goto(p, "idle", <<>>)
    /\ UNCHANGED <<resits, registrations>>
    /\ UNCHANGED <<student, total_semesters, results, gpas, is_current,
                   year_is_current, reports, signals_ready, refused, allocations>>

\* the look-up that opens utils.register_for_resit, then ResitExam.save of the
\* new instance up to full_clean. locals: <<op, the instance>>
resit_check(p, s, semester_result, resit_semester) ==
    LET x == NewResitExam(s, semester_result, resit_semester)
        errs == IF ExistingResits(resits, s, semester_result, resit_semester) # {}
                THEN {"already_registered"}
                ELSE ResitExam_full_clean(x, 0, resits)
    IN /\ At(p, "idle")
       /\ IF errs # {}
          THEN /\ last' = Answer("register_for_resit", s, resit_semester, 0, errs)
               /\ UNCHANGED procs
          ELSE /\ Goto(p, "resit.insert", <<"register_for_resit", x>>)
               /\ UNCHANGED last
       /\ UNCHANGED <<enrollments, resits, registrations>>
       /\ UNCHANGED <<student, total_semesters, results, gpas, is_current,
                      year_is_current, reports, signals_ready, refused, allocations>>

\* the INSERT of ResitExam.save: unique_together (student, original_result,
\* resit_semester) refuses a second row of the key with an IntegrityError,
\* which register_for_resit answers as "Error registering for resit: ..."
resit_insert(p) ==
    /\ At(p, "resit.insert")
    /\ Len(resits) < MaxResits
    /\ LET x == procs[p].locals[2]
       IN IF ResitExam_validate_unique(x, 0, resits) # {}
          THEN /\ UNCHANGED resits
               /\ last' = Answer("register_for_resit", x.student, x.resit_semester,
                                 0, {"integrity_error"})
          ELSE /\ resits' = Append(resits, x)
               /\ last' = Answer("register_for_resit", x.student, x.resit_semester,
                                 1, {})
    /\ Goto(p, "idle", <<>>)
    /\ UNCHANGED <<enrollments, registrations>>
    /\ UNCHANGED <<student, total_semesters, results, gpas, is_current,
                   year_is_current, reports, signals_ready, refused, allocations>>

\* student 1 has an approved report for semester 1 and nothing is enrolled
\* or registered yet
InitRace ==
    /\ student = [s \in Students |-> [current_year |-> 1, current_semester |-> "1"]]
    /\ total_semesters = 8
    /\ results = EnrollResults
    /\ gpas = {}
    /\ is_current = [m \in SemesterIds |-> m = 1]
    /\ year_is_current = [y \in AcademicYears |-> y = 1]
    /\ reports = EnrollReports
    /\ signals_ready = FALSE
    /\ refused = [s \in Students |-> FALSE]
    /\ last = NoRequest
    /\ allocations = ResitAllocations
    /\ enrollments = <<>>
    /\ registrations = <<>>
    /\ resits = <<>>
    /\ procs = NoWorkers

NextRace ==
    \/ \E p \in Workers, op \in {"enroll_student_in_unit", "unit_enrollment_view"},
          u \in ProgrammeUnits :
            enrollment_check(p, op, 1, u, 1, 2)
    \/ \E p \in Workers : enrollment_insert(p)
    \/ \E p \in Workers, result \in ResultsOf(1), m \in SemesterIds :
          resit_check(p, 1, result, m)
    \/ \E p \in Workers : resit_insert(p)

SpecRace == InitRace /\ [][NextRace]_vars

(***************************************************************************)
(* ResitExam.save with the post_save receivers of signals.py connected,    *)
(* statement by statement. The call chain is save -> super().save() ->     *)
(* post_save -> update_resit_completion -> calculate_resit_grade -> save.  *)
(***************************************************************************)
\* the saves of one chain that fit on the interpreter's stack before it
\* raises RecursionError
MaxSaveDepth == 3

\* ResitExamAdmin change form of row pk, up to obj.save(); the UPDATE of the
\* row locks it, so one request at a time works on it.
\* locals: <<pk, the instance, depth of the save on the stack, the stored row>>
AdminChangeResit_form(p, pk, status, marks, grade) ==
    /\ \A q \in Workers : At(q, "idle")
    /\ pk \in DOMAIN resits
    /\ Goto(p, "resit.save",
            <<pk, [resits[pk] EXCEPT !.status = status, !.resit_marks = marks,
                                     !.resit_grade = grade[1],
                                     !.resit_grade_point = grade[2]],
              1, resits[pk]>>)
    /\ UNCHANGED <<last, resits, results>>
    /\ UNCHANGED <<student, total_semesters, gpas, is_current, year_is_current,
                   reports, signals_ready, refused, allocations, enrollments,
                   registrations>>

\* ResitExam.save: full_clean and super().save(), whose UPDATE is followed
\* by the post_save signal
ResitExam_save_update(p) ==
    /\ At(p, "resit.save")
    /\ LET pk == procs[p].locals[1]
           x  == procs[p].locals[2]
           errs == ResitExam_full_clean(x, pk, resits)
       IN IF errs # {}
          THEN /\ resits' = [resits EXCEPT ![pk] = procs[p].locals[4]]
               /\ last' = Answer("admin_change_resit", x.student, x.resit_semester,
                                 pk, errs)
               /\ Goto(p, "idle", <<>>)
          ELSE /\ resits' = [resits EXCEPT ![pk] = x]
               /\ Goto(p, IF signals_ready THEN "resit.post_save"
                                           ELSE "resit.write_back",
                       procs[p].locals)
               /\ UNCHANGED last
    /\ UNCHANGED results
    /\ UNCHANGED <<student, total_semesters, gpas, is_current, year_is_current,
                   reports, signals_ready, refused, allocations, enrollments,
                   registrations>>

\* signals.update_resit_completion and ResitExam.calculate_resit_grade: a
\* completed row with marks in a band gets the band's grade and is saved
\* again, one save deeper on the stack; when the stack is full the
\* interpreter raises RecursionError and the admin's transaction rolls back
update_resit_completion(p) ==
    /\ At(p, "resit.post_save")
    /\ LET pk == procs[p].locals[1]
           x  == procs[p].locals[2]
           depth == procs[p].locals[3]
       IN IF x.status = "completed" /\ x.resit_marks # NoMarks
             /\ GradingRules(x.resit_marks) # {}
          THEN IF depth < MaxSaveDepth
               THEN /\ Goto(p, "resit.save",
                            <<pk, calculate_resit_grade(x), depth + 1,
                              procs[p].locals[4]>>)
                    /\ UNCHANGED <<resits, last>>
               ELSE /\ resits' = [resits EXCEPT ![pk] = procs[p].locals[4]]
                    /\ last' = Answer("admin_change_resit", x.student,
                                      x.resit_semester, pk, {"recursion_error"})
                    /\ Goto(p, "idle", <<>>)
          ELSE /\ Goto(p, "resit.write_back", procs[p].locals)
               /\ UNCHANGED <<resits, last>>
    /\ UNCHANGED results
    /\ UNCHANGED <<student, total_semesters, gpas, is_current, year_is_current,
                   reports, signals_ready, refused, allocations, enrollments,
                   registrations>>

\* the rest of ResitExam.save after super().save() has returned: the
\* write-back to the original result, then the return to the caller (the
\* enclosing save of the chain, or the admin)
ResitExam_save_write_back(p) ==
    /\ At(p, "resit.write_back")
    /\ LET pk == procs[p].locals[1]
           x  == procs[p].locals[2]
           depth == procs[p].locals[3]
           completes == x.status = "completed" /\ x.resit_marks # NoMarks
       IN IF completes /\ x.resit_grade_point = NoMarks
          THEN /\ resits' = [resits EXCEPT ![pk] = procs[p].locals[4]]
               /\ UNCHANGED results
               /\ last' = Answer("admin_change_resit", x.student,
                                 x.resit_semester, pk, {"type_error"})
               /\ Goto(p, "idle", <<>>)
          ELSE /\ results' = IF completes THEN OverwriteOriginalResult(x, results)
                                          ELSE results
               /\ UNCHANGED resits
               /\ IF depth > 1
                  THEN /\ Goto(p, "resit.write_back",
                               <<pk, x, depth - 1, procs[p].locals[4]>>)
                       /\ UNCHANGED last
                  ELSE /\ Goto(p, "idle", <<>>)
                       /\ last' = Answer("admin_change_resit", x.student,
                                         x.resit_semester, pk, {})
    /\ UNCHANGED <<student, total_semesters, gpas, is_current, year_is_current,
                   reports, signals_ready, refused, allocations, enrollments,
                   registrations>>

\* student 1 has registered for the resit of the failed unit in semester 2;
\* the receivers are connected or, as apps.py leaves them, not
InitChain ==
    /\ student = [s \in Students |-> [current_year |-> 1, current_semester |-> "1"]]
    /\ total_semesters = 8
    /\ results = EnrollResults
    /\ gpas = {}
    /\ is_current = [m \in SemesterIds |-> m = 1]
    /\ year_is_current = [y \in AcademicYears |-> y = 1]
    /\ reports = EnrollReports
    /\ signals_ready \in BOOLEAN
    /\ refused = [s \in Students |-> FALSE]
    /\ last = NoRequest
    /\ allocations = ResitAllocations
    /\ enrollments = <<>>
    /\ registrations = <<>>
    /\ resits = <<NewResitExam(1, ResitResult, 2)>>
    /\ procs = NoWorkers

NextChain ==
    \/ \E p \in Workers, pk \in DOMAIN resits, status \in {"approved", "completed"},
          marks \in ResitMarksChoices, grade \in ResitGradeChoices :
            AdminChangeResit_form(p, pk, status, marks, grade)
    \/ \E p \in Workers : ResitExam_save_update(p)
    \/ \E p \in Workers : update_resit_completion(p)
    \/ \E p \in Workers : ResitExam_save_write_back(p)

\* the interpreter runs a request that has entered save to its end
SpecChain ==
    /\ InitChain /\ [][NextChain]_vars
    /\ \A p \in Workers :
          WF_vars(ResitExam_save_update(p) \/ update_resit_completion(p)
                     \/ ResitExam_save_write_back(p))

(***************************************************************************)
(* The student-facing way out of a block on reporting: registering for     *)
(* resits, having them approved and marked, and filing the report          *)
(***************************************************************************)
\* semester 2 has just become current and every unit is offered in it; in
\* semester 1 student 1 failed all three units and student 2 failed unit 1;
\* nobody has reported for semester 2 yet
InitRecover ==
    /\ student = [s \in Students |-> [current_year |-> 1, current_semester |-> "1"]]
    /\ total_semesters = 8
    /\ results = {[student |-> s, programme_unit |-> u, semester |-> 1,
                   is_passed |-> (s = 2 /\ u > 1),
                   total_marks |-> IF s = 2 /\ u > 1 THEN Dec(65) ELSE Dec(30),
                   grade |-> IF s = 2 /\ u > 1 THEN "B" ELSE "E",
                   grade_point |-> IF s = 2 /\ u > 1 THEN Dec(3) ELSE Dec(0),
                   is_supplementary |-> FALSE, remarks |-> <<>>] :
                     s \in Students, u \in ProgrammeUnits}
    /\ gpas = {<<s, 1>> : s \in Students}
    /\ is_current = [m \in SemesterIds |-> m = 2]
    /\ year_is_current = [y \in AcademicYears |-> y = 2]
    /\ reports = <<>>
    /\ signals_ready = FALSE
    /\ refused = [s \in Students |-> FALSE]
    /\ last = NoRequest
    /\ allocations = ProgrammeUnits \X {2}
    /\ enrollments = <<>>
    /\ registrations = <<>>
    /\ resits = <<>>
    /\ procs = NoWorkers

\* the students file and register for resits; the staff approve reports and
\* resits and enter the marks of a passed resit
NextRecover ==
    \/ \E s \in Students : semester_report_view(s) /\ UNCHANGED <<enrolVars, procs>>
    \/ \E Q \in SUBSET (1..MaxReports) : approve_reports(Q) /\ UNCHANGED <<enrolVars, procs>>
    \/ \E s \in Students, is_open \in BOOLEAN, result \in results :
          resit_exam_registration(s, <<result>>, is_open)
    \/ \E Q \in SUBSET (1..MaxResits) : approve_resits(Q)
    \/ \E pk \in 1..MaxResits, grade \in {<<"C", Dec(2)>>, <<"B", Dec(3)>>} :
          AdminChangeResit(pk, "completed", Dec(55), grade)

\* a student who can file or register with effect eventually does, and the
\* staff eventually act on what waits for them
SpecRecover ==
    /\ InitRecover /\ [][NextRecover]_vars
    /\ \A s \in Students :
          /\ SF_vars(semester_report_view(s) /\ UNCHANGED <<enrolVars, procs>>
                        /\ reports' # reports)
          /\ SF_vars(\E result \in results :
                         /\ resit_exam_registration(s, <<result>>, TRUE)
                         /\ resits' # resits)
    /\ WF_vars(\E pk \in 1..MaxResits :
                  approve_resits({pk}) /\ resits' # resits)
    /\ WF_vars(\E pk \in 1..MaxResits :
                  /\ AdminChangeResit(pk, "completed", Dec(55), <<"C", Dec(2)>>)
                  /\ resits' # resits)

(***************************************************************************)
(* Resit after resit: registering, marking, and registering again for a    *)
(* later semester                                                          *)
(***************************************************************************)
\* student 1 registers for resits of the failed unit 1, offered in both
\* semesters: register_for_resit is called with the stored result row; the
\* staff mark the resits as completed through the change form
NextResits ==
    \/ \E result \in results, m \in SemesterIds :
          /\ ResultPk(result) = ResultPk(ResitResult)
          /\ register_for_resit(1, result, m)
    \/ \E pk \in 1..MaxResits, marks \in {Dec(45), Dec(55)},
          grade \in {<<"D", Dec(1)>>, <<"C", Dec(2)>>} :
            AdminChangeResit(pk, "completed", marks, grade)

SpecResits == InitRegister /\ [][NextResits]_vars

(***************************************************************************)
(* Properties of the progression engine                                    *)
(***************************************************************************)
FilingOps == {"semester_report_view", "create_semester_report", "admin_add_report"}

\* <<to_year_of_study, to_semester_number>> of a report row
Target(r) == <<r.to_year_of_study, r.to_semester_number>>
Position(st) == <<st.current_year, st.current_semester>>

\* C1: a student with more than 2 failed units who files a report (through
\* semester_report_view or create_semester_report for a semester without a
\* pending / approved report of the student, or through SemesterReport.save
\* with that count) is answered not-eligible, and once the student has been
\* refused no approval action changes the student's current_year /
\* current_semester.
C1_IneligibleNeverProgresses ==
    [][\A s \in Students :
          get_student_failed_units_count(s, 0) > MaxFailedUnits =>
            /\ (/\ last'.op \in {"semester_report_view", "create_semester_report"}
                /\ last'.student = s
                /\ last'.semester # 0
                /\ ExistingReports(s, last'.semester) = {})
                  => "ineligible" \in last'.errors
            /\ (/\ last'.op = "admin_add_report"
                /\ last'.student = s
                /\ last'.count > MaxFailedUnits)
                  => "ineligible" \in last'.errors
            /\ (refused[s] /\ last'.op \notin FilingOps)
                  => student'[s] = student[s]]_vars

\* C2: each (student, target semester) pair has at most one SemesterReport
\* whose status is pending or approved.
C2_OneActiveReportPerSemester ==
    \A i, j \in DOMAIN reports :
        (/\ reports[i].student = reports[j].student
         /\ reports[i].to_semester = reports[j].to_semester
         /\ reports[i].status \in {"pending", "approved"}
         /\ reports[j].status \in {"pending", "approved"}) => i = j

\* C3: saving again a SemesterReport that is already approved leaves the
\* student's current_year and current_semester unchanged.
C3_ReapprovalIsNoOp ==
    [][\A pk \in DOMAIN reports :
          (reports[pk].status = "approved" /\ AdminChangeReport(pk, "approved"))
              => student' = student]_vars

\* C4: whenever a report's status changes from pending to approved, by the
\* change form or by approve_reports, the student stands at the report's
\* to_year_of_study / to_semester_number in the resulting state.
C4_ApprovalProgressesStudent ==
    [][\A i \in DOMAIN reports :
          (reports[i].status = "pending" /\ reports'[i].status = "approved")
              => Position(student'[reports'[i].student]) = Target(reports'[i])]_vars

\* semesters a year of the programme: 3 if total_semesters is divisible by 3,
\* otherwise 2
SemestersPerYear == IF total_semesters % 3 = 0 THEN 3 ELSE 2

\* C10: on every filing path the new report's target is (current_year,
\* current_semester + 1) while the current semester number is below the
\* programme's semesters-per-year, and (current_year + 1, 1) otherwise.
C10_TargetFollowsProgramme ==
    [][(last'.op \in {"semester_report_view", "create_semester_report"}
          /\ Len(reports') = Len(reports) + 1)
        => LET s == last'.student
               n == IntOf(student[s].current_semester)
           IN Target(reports'[Len(reports')]) =
                 IF n < SemestersPerYear
                 THEN <<student[s].current_year, StrOf(n + 1)>>
                 ELSE <<student[s].current_year + 1, "1">>]_vars

(***************************************************************************)
(* Properties of the enrolment engine                                      *)
(***************************************************************************)
\* the preconditions of an enrolment request, in the order (a) .. (d)
ViolatesA(e) ==
    \/ e.semester_report \notin DOMAIN reports
    \/ reports[e.semester_report].status # "approved"
ViolatesB(e) == <<e.programme_unit, e.semester>> \notin allocations
ViolatesC(e) ==
    \E i \in DOMAIN enrollments :
        /\ enrollments[i].student = e.student
        /\ enrollments[i].programme_unit = e.programme_unit
        /\ enrollments[i].semester = e.semester
        /\ enrollments[i].status \in {"pending", "approved"}
ViolatesD(e) ==
    /\ e.enrollment_type = "resit"
    /\ ~\E r \in results :
          r.student = e.student /\ r.programme_unit = e.programme_unit /\ ~r.is_passed

PreconditionErrors ==
    {"must_report", "not_offered", "already_enrolled", "no_failed_result"}

\* the errors of the preconditions the request violates
Violated(e) ==
    (IF ViolatesA(e) THEN {"must_report"} ELSE {})
    \cup (IF ViolatesB(e) THEN {"not_offered"} ELSE {})
    \cup (IF ViolatesC(e) THEN {"already_enrolled"} ELSE {})
    \cup (IF ViolatesD(e) THEN {"no_failed_result"} ELSE {})

\* the error of the first violated precondition
FirstViolated(e) ==
    IF ViolatesA(e) THEN "must_report"
    ELSE IF ViolatesB(e) THEN "not_offered"
    ELSE IF ViolatesC(e) THEN "already_enrolled"
    ELSE IF ViolatesD(e) THEN "no_failed_result"
    ELSE "none"

\* the step is the request of s to enrol in unit u of semester m under report
\* r with the given type, through the utility or through UnitEnrollment.save
EnrollmentRequest(s, u, m, r, type) ==
    \/ enroll_student_in_unit(s, u, m, r, type)
    \/ AdminAddEnrollment(s, u, m, r, type, "pending")

\* the rows the step added to the UnitEnrollment table
NewEnrollmentRows == {i \in DOMAIN enrollments' : i > Len(enrollments)}

\* C5, as stated: an enrolment request with type resit for a (student, unit)
\* that has no failed SemesterResult answers 'no failed result found', and
\* the UnitEnrollment rows after it are the rows before it.
C5_Original ==
    [][\A s \in EnrollingStudents, u \in ProgrammeUnits, m \in EnrollSemesters,
          r \in DOMAIN reports :
            (~HasFailedResult(s, u) /\ EnrollmentRequest(s, u, m, r, "resit"))
                => /\ "no_failed_result" \in last'.errors
                   /\ enrollments' = enrollments]_vars

\* C5, amended: an enrolment request with type resit for a (student, unit)
\* that has no failed SemesterResult fails and leaves the UnitEnrollment rows
\* as they were; its error is 'no failed result found' when the request
\* violates none of the earlier preconditions (report approved, unit offered,
\* no pending / approved enrolment of the same student, unit and semester).
\* No request, unit_enrollment_view included, adds a resit enrolment of a unit
\* the student has no failed result for.
C5_Amended ==
    [][/\ \A i \in NewEnrollmentRows :
            enrollments'[i].enrollment_type = "resit"
              => HasFailedResult(enrollments'[i].student,
                                 enrollments'[i].programme_unit)
       /\ last'.op \in {"enroll_student_in_unit", "admin_add_enrollment"} =>
            \A s \in EnrollingStudents, u \in ProgrammeUnits,
               m \in EnrollSemesters, r \in DOMAIN reports :
                 (~HasFailedResult(s, u) /\ EnrollmentRequest(s, u, m, r, "resit"))
                   => /\ last'.errors # {}
                      /\ enrollments' = enrollments
                      /\ FirstViolated(NewEnrollment(s, r, u, m, "resit", "pending", 0))
                             = "no_failed_result"
                           => "no_failed_result" \in last'.errors]_vars

\* a resit request for a unit the student has not failed has just been refused
\* with 'no failed result found'
C5_Witness ==
    /\ last.op \in {"enroll_student_in_unit", "admin_add_enrollment",
                    "unit_enrollment_view"}
    /\ "no_failed_result" \in last.errors
    /\ last.count = 0

\* C6: a UnitEnrollment row is created only when the SemesterReport it
\* references is approved and is of the same student and the same semester as
\* the enrolment; otherwise the creation fails with 'must report before
\* enrolling' and no row is created.
C6_ReportMatchesEnrollment ==
    [][/\ \A i \in NewEnrollmentRows :
            LET e == enrollments'[i]
            IN /\ e.semester_report \in DOMAIN reports
               /\ reports[e.semester_report].status = "approved"
               /\ reports[e.semester_report].student = e.student
               /\ reports[e.semester_report].to_semester = e.semester
       /\ \A s \in EnrollingStudents, u \in ProgrammeUnits, m \in EnrollSemesters,
             r \in DOMAIN reports, type \in ENROLLMENT_TYPE :
               (/\ EnrollmentRequest(s, u, m, r, type)
                /\ ~(/\ reports[r].status = "approved"
                     /\ reports[r].student = s
                     /\ reports[r].to_semester = m))
                 => /\ "must_report" \in last'.errors
                    /\ enrollments' = enrollments]_vars

\* C7: when an enrolment request violates more than one precondition, the
\* error it reports is that of the first violated one in the order (a) report
\* not approved, (b) unit not offered, (c) already enrolled, (d) resit without
\* a failed result, through enroll_student_in_unit and UnitEnrollment.save.
C7_FirstViolatedIsReported ==
    [][\A s \in EnrollingStudents, u \in ProgrammeUnits, m \in EnrollSemesters,
          r \in DOMAIN reports, type \in ENROLLMENT_TYPE :
            LET e == NewEnrollment(s, r, u, m, type, "pending", 0)
            IN (EnrollmentRequest(s, u, m, r, type) /\ Cardinality(Violated(e)) > 1)
                  => last'.errors \cap PreconditionErrors = {FirstViolated(e)}]_vars

\* <<student, programme unit, semester>> of an enrolment or registration row
RowKey(x) == <<x.student, x.programme_unit, x.semester>>

\* the step makes the UnitEnrollment row i approved
BecomesApproved(i) ==
    /\ i \in DOMAIN enrollments'
    /\ enrollments'[i].status = "approved"
    /\ (i \in DOMAIN enrollments => enrollments[i].status # "approved")

\* C8: there is at most one UnitRegistration row per (student, programme
\* unit, semester); approving an enrolment, or saving an approved one again,
\* while a registration of its key exists leaves the UnitRegistration rows as
\* they were.
C8_OneRegistrationPerKey ==
    [][/\ \A i, j \in DOMAIN registrations' :
            RowKey(registrations'[i]) = RowKey(registrations'[j]) => i = j
       /\ \A pk \in DOMAIN enrollments, type \in ENROLLMENT_TYPE :
            (/\ AdminChangeEnrollment(pk, type, "approved")
             /\ \E j \in DOMAIN registrations :
                   RowKey(registrations[j]) = RowKey(enrollments[pk]))
               => registrations' = registrations
       /\ \A i \in DOMAIN enrollments' :
            (/\ BecomesApproved(i)
             /\ \E j \in DOMAIN registrations :
                   RowKey(registrations[j]) = RowKey(enrollments'[i]))
               => registrations' = registrations]_vars

\* an enrolment was approved through the change form while a registration of
\* its key, made for another enrollment_type, existed: the registration is
\* still the only one and still as it was made
C8_Witness ==
    /\ last.op = "admin_change_enrollment"
    /\ last.errors = {}
    /\ Len(enrollments) = 1
    /\ enrollments[1].status = "approved"
    /\ Len(registrations) = 1
    /\ RowKey(registrations[1]) = RowKey(enrollments[1])
    /\ registrations[1].is_retake
          # (enrollments[1].enrollment_type \in {"resit", "retake"})

\* C9: whenever a UnitEnrollment becomes approved, by a save or by
\* approve_enrollments, a UnitRegistration of the same (student, programme
\* unit, semester) exists in the resulting state, with is_retake true exactly
\* when the enrollment type is resit or retake.
C9_ApprovalMirrorsRegistration ==
    [][\A i \in DOMAIN enrollments' :
          BecomesApproved(i)
            => \E j \in DOMAIN registrations' :
                  /\ RowKey(registrations'[j]) = RowKey(enrollments'[i])
                  /\ registrations'[j].is_retake
                        = (enrollments'[i].enrollment_type \in {"resit", "retake"})]_vars

(***************************************************************************)
(* Messages of a refused filing                                            *)
(***************************************************************************)
\* text contains phrase as a run of consecutive pieces
Contains(text, phrase) ==
    \E i \in 0..(Len(text) - Len(phrase)) :
        SubSeq(text, i + 1, i + Len(phrase)) = phrase

\* C11: for a student with n > 2 failed units, a filing refused as not
\* eligible, through create_semester_report or through SemesterReport.save
\* as semester_report_view calls it, answers with a text that contains
\* "n failed units" and "Maximum allowed is 2".
C11_RefusalStatesCountAndLimit ==
    \A s \in Students :
        LET n == get_student_failed_units_count(s, 0)
        IN (/\ n > MaxFailedUnits
            /\ last.op \in {"semester_report_view", "create_semester_report"}
            /\ last.student = s
            /\ "ineligible" \in last.errors)
              => /\ Contains(RefusalMessage(last), <<StrOf(n), "failed units">>)
                 /\ Contains(RefusalMessage(last), <<"Maximum allowed is 2">>)

(***************************************************************************)
(* Properties of resit registration                                        *)
(***************************************************************************)
\* C15: register_for_resit answers "not offered" when the unit of the
\* original result has no dean-approved allocation in the resit semester and
\* "already registered" when a ResitExam of the same (student, original
\* result, resit semester) exists; both leave the ResitExam rows as they
\* were, and no two rows ever share a triple.
C15_RegisterResitPreconditions ==
    [][/\ \A s \in Students, result \in EnrollResults, m \in SemesterIds :
            register_for_resit(s, result, m) =>
              /\ ~IsOffered(result.programme_unit, m)
                    => /\ last'.errors = {"resit_not_offered"}
                       /\ resits' = resits
              /\ ExistingResits(resits, s, result, m) # {}
                    => /\ last'.errors = {"already_registered"}
                       /\ resits' = resits
       /\ \A i, j \in DOMAIN resits' :
            (/\ resits'[i].student = resits'[j].student
             /\ resits'[i].original_result = resits'[j].original_result
             /\ resits'[i].resit_semester = resits'[j].resit_semester) => i = j]_vars

\* a second register_for_resit for a registered triple was answered
C15_Witness ==
    /\ last.op = "register_for_resit"
    /\ last.errors = {"already_registered"}
    /\ \E result \in EnrollResults :
          ExistingResits(resits, last.student, result, last.semester) # {}

(***************************************************************************)
(* Properties of resit completion                                          *)
(***************************************************************************)
\* the SemesterResults row the resit x was taken for, in the table rows
OriginalResult(x, rows) == CHOOSE r \in rows : ResultPk(r) = x.original_result

\* C12: after register_for_resit, completing the resit with marks m that lie
\* in a grading band (the change form sets resit_marks = m and status =
\* completed) leaves the original result with total_marks = m, the grade and
\* grade point of that band, is_supplementary set and is_passed = (grade
\* point >= 2.0).
C12_CompletionGradesByBand ==
    [][\A pk \in DOMAIN resits, marks \in ResitMarksChoices \ {NoMarks},
          grade \in ResitGradeChoices :
            (/\ GradingRules(marks) # {}
             /\ AdminChangeResit(pk, "completed", marks, grade))
              => LET band == FirstGrading(GradingRules(marks))
                     r == OriginalResult(resits[pk], results')
                 IN /\ r.total_marks = marks
                    /\ r.grade = band.grade
                    /\ r.grade_point = band.grade_point
                    /\ r.is_supplementary
                    /\ r.is_passed = (band.grade_point >= PassGradePoint)]_vars

\* C13: completing a ResitExam that the previous request completed, again
\* with the marks and grade it holds, leaves the original result's
\* total_marks, grade, grade_point, is_passed, is_supplementary and remarks
\* as the first completion left them.
C13_RecompletionIsIdempotent ==
    [][\A pk \in DOMAIN resits :
          (/\ last.op = "admin_change_resit" /\ last.count = pk
           /\ last.errors = {}
           /\ resits[pk].status = "completed"
           /\ resits[pk].resit_marks # NoMarks
           /\ AdminChangeResit(pk, "completed", resits[pk].resit_marks,
                  <<resits[pk].resit_grade, resits[pk].resit_grade_point>>))
            => OriginalResult(resits[pk], results')
                  = OriginalResult(resits[pk], results)]_vars

\* a completion through the change form has overwritten the original result
C13_Witness ==
    /\ last.op = "admin_change_resit" /\ last.errors = {}
    /\ \E pk \in DOMAIN resits :
          /\ last.count = pk
          /\ resits[pk].status = "completed"
          /\ resits[pk].resit_marks # NoMarks
          /\ OriginalResult(resits[pk], results).total_marks = resits[pk].resit_marks
          /\ OriginalResult(resits[pk], results).remarks = ResitRemark(resits[pk])

\* C14: whenever a ResitExam that holds resit marks becomes completed, through
\* ResitExam.save or through the bulk action mark_as_completed, the original
\* result then has total_marks = resit_marks, the resit's grade and grade
\* point, and is_supplementary set.
C14_CompletionOverwritesOriginal ==
    [][\A pk \in DOMAIN resits :
          (/\ resits[pk].status # "completed"
           /\ resits'[pk].status = "completed"
           /\ resits'[pk].resit_marks # NoMarks)
            => LET x == resits'[pk]
                   r == OriginalResult(x, results')
               IN /\ r.total_marks = x.resit_marks
                  /\ r.grade = x.resit_grade
                  /\ r.grade_point = x.resit_grade_point
                  /\ r.is_supplementary]_vars

(***************************************************************************)
(* Status workflow                                                         *)
(***************************************************************************)
\* the edges of the status workflow
AllowedEdges ==
    {<<"pending", "approved">>, <<"pending", "rejected">>,
     <<"registered", "approved">>, <<"registered", "rejected">>}
ResitEdges == {<<"approved", "completed">>, <<"approved", "missed">>}

\* the status of row i of table rows changes along one of the edges E
FollowsEdges(rows, rowsAfter, E) ==
    \A i \in DOMAIN rows :
        (i \in DOMAIN rowsAfter /\ rowsAfter[i].status # rows[i].status)
          => <<rows[i].status, rowsAfter[i].status>> \in E

\* C16: every status change of a SemesterReport, UnitEnrollment or ResitExam
\* follows pending/registered -> approved or rejected, or, for a ResitExam,
\* approved -> completed or missed; nothing leaves rejected or completed and
\* no state is skipped.
C16_StatusFollowsWorkflow ==
    [][/\ FollowsEdges(reports, reports', AllowedEdges)
       /\ FollowsEdges(enrollments, enrollments', AllowedEdges)
       /\ FollowsEdges(resits, resits', AllowedEdges \cup ResitEdges)]_vars

(***************************************************************************)
(* Properties of the calendar                                              *)
(***************************************************************************)
\* C17: after any sequence of calendar requests run one at a time (adding,
\* updating or deleting an AcademicYear or a Semester, set_current_academic_
\* year, set_current_semester, backup_set_current_semester) at most one
\* AcademicYear and at most one Semester have is_current set.
C17_OneCurrentRow ==
    /\ Cardinality({y \in DOMAIN year_is_current : year_is_current[y]}) <= 1
    /\ Cardinality({m \in DOMAIN is_current : is_current[m]}) <= 1

\* a request moved the current flag from one existing semester to another
C17_Witness ==
    /\ last.op \in {"set_current_semester", "backup_set_current_semester"}
    /\ Cardinality(DOMAIN is_current) >= 2
    /\ Cardinality(DOMAIN year_is_current) >= 2
    /\ \E m \in DOMAIN is_current : is_current[m]
    /\ \E y \in DOMAIN year_is_current : year_is_current[y]

\* the rows of a current-flag table that are marked current
CurrentRows(flags) == {k \in DOMAIN flags : flags[k]}

\* C18: however set_current_semester and set_current_academic_year requests
\* interleave, a reader never finds zero current semesters or years where
\* there was one, and never finds two.
C18_AtomicSwap ==
    [][/\ Cardinality(CurrentRows(is_current)) = 1
          => Cardinality(CurrentRows(is_current')) >= 1
       /\ Cardinality(CurrentRows(year_is_current)) = 1
          => Cardinality(CurrentRows(year_is_current')) >= 1
       /\ Cardinality(CurrentRows(is_current')) <= 1
       /\ Cardinality(CurrentRows(year_is_current')) <= 1]_vars

\* C19: of two concurrent filing requests for the same (student, target
\* semester) at most one succeeds: whatever the interleaving of their check
\* and insert statements, at most one pending or approved SemesterReport of
\* the pair exists.
C19_ConcurrentFilingKeepsOneReport ==
    \A s \in Students, m \in SemesterIds :
        Cardinality(ExistingReports(s, m)) <= 1

\* C20: once two concurrent approvals of the same SemesterReport, or of the
\* same UnitEnrollment, have both finished, the state is that of a single
\* approval: the student stands at the report's target year and semester,
\* and exactly one UnitRegistration exists for the enrolment's (student,
\* unit, semester).
C20_ConcurrentApprovalsActOnce ==
    (\A p \in Workers : At(p, "idle")) =>
        /\ \A pk \in DOMAIN reports :
              reports[pk].status = "approved"
                => Position(student[reports[pk].student]) = Target(reports[pk])
        /\ \A i \in DOMAIN enrollments :
              enrollments[i].status = "approved"
                => Cardinality(RegistrationsOf(enrollments[i])) = 1

\* both workers approve the same enrolment and have both passed the get of
\* get_or_create without finding a registration; the report of student 1 has
\* been approved
C20_Witness ==
    /\ \A p \in Workers : At(p, "registration.create")
    /\ procs[1].locals[1] = procs[2].locals[1]
    /\ reports[1].status = "approved"
    /\ Position(student[1]) = Target(reports[1])

\* what a duplicate request answers when it arrives after the first one has
\* finished: the errors of the checks that run before the INSERT
DuplicateErrors(op, e) ==
    IF op = "enroll_student_in_unit"
    THEN {"already_enrolled"}
    ELSE UnitEnrollment_full_clean(e, 0, enrollments)

\* C21: when two identical enrol or resit-registration requests race and the
\* INSERT of the slower one is refused by the unique constraint, the slower
\* request answers with the same "already enrolled" / "already registered"
\* error a duplicate request made after the first had finished would get,
\* not with a generic or raw storage error.
C21_RaceLoserGetsAlreadyExists ==
    [][\A p \in Workers :
         /\ (/\ enrollment_insert(p)
             /\ UnitEnrollment_validate_unique(procs[p].locals[2], 0,
                                                enrollments) # {})
              => last'.errors = DuplicateErrors(procs[p].locals[1], procs[p].locals[2])
         /\ (/\ resit_insert(p)
             /\ ResitExam_validate_unique(procs[p].locals[2], 0, resits) # {})
              => last'.errors = {"already_registered"}]_vars

\* C22: a unit-enrolment submission is all-or-nothing: when the request ends
\* with an error, none of the UnitEnrollment or ResitExam rows it created
\* before the failure remain stored.
C22_SubmissionIsAllOrNothing ==
    [][(last'.op = "unit_enrollment_view" /\ last'.errors # {})
          => /\ enrollments' = enrollments
             /\ resits' = resits
             /\ registrations' = registrations]_vars

\* C23: completing a resit whose marks lie in no grading band of the unit
\* leaves the resit's grade and grade point unset, reports an error, and
\* leaves the original SemesterResult unchanged; no default grade is written.
C23_NoBandLeavesGradeUnset ==
    [][\A pk \in DOMAIN resits, marks \in ResitMarksChoices,
          grade \in ResitGradeChoices :
            (/\ marks # NoMarks
             /\ GradingRules(marks) = {}
             /\ AdminChangeResit(pk, "completed", marks, grade))
              => /\ resits'[pk].resit_grade = ""
                 /\ resits'[pk].resit_grade_point = NoMarks
                 /\ last'.errors # {}
                 /\ results' = results]_vars

\* C24: with the post_save receiver update_resit_completion connected, saving
\* a ResitExam with status completed and resit marks present terminates: the
\* chain save -> post_save -> calculate_resit_grade -> save reaches, after
\* finitely many steps, a save whose post_save triggers no further save and
\* which goes on to its write-back, for marks in a band as for marks in none.
C24_CompletionChainTerminates ==
    \A p \in Workers :
        (/\ signals_ready
         /\ At(p, "resit.save")
         /\ procs[p].locals[2].status = "completed"
         /\ procs[p].locals[2].resit_marks # NoMarks)
          ~> At(p, "resit.write_back")

\* the same chain for marks that lie in no band
C24_NoBandChainTerminates ==
    \A p \in Workers :
        (/\ signals_ready
         /\ At(p, "resit.save")
         /\ procs[p].locals[2].status = "completed"
         /\ procs[p].locals[2].resit_marks # NoMarks
         /\ GradingRules(procs[p].locals[2].resit_marks) = {})
          ~> At(p, "resit.write_back")

\* the student has more than 2 failed results whose units are offered in the
\* current semester
BlockedFromReporting(s) ==
    Cardinality({r \in results :
                    /\ r.student = s /\ ~r.is_passed
                    /\ IsOffered(r.programme_unit, CurrentSemester)}) > MaxFailedUnits

\* the student holds a pending or approved report for the current semester
HoldsReport(s) == ExistingReports(s, CurrentSemester) # {}

\* C25: a student blocked from reporting by more than 2 failed units recovers
\* through the student-facing workflow: while resit registration is open,
\* registering for resits, their approval, their completion with passing
\* marks and semester_report_view lead to the student holding a pending or
\* approved report for the current semester.
C25_BlockedStudentRecovers ==
    \A s \in Students : BlockedFromReporting(s) ~> HoldsReport(s)

\* whatever is requested, the blocked student 1 never comes to hold a report
\* nor a resit registration
C25_BlockedStudentStaysBlocked ==
    /\ ~HoldsReport(1)
    /\ \A i \in DOMAIN resits : resits[i].student # 1

\* C26: every ResitExam row refers to an original SemesterResult that belongs
\* to the same student and was failed (is_passed = false) when the resit was
\* registered. (No registration request changes a result, so the stored
\* result is the result at registration time.)
C26_ResitRefersToOwnFailedResult ==
    \A i \in DOMAIN resits :
        /\ resits[i].original_result.student = resits[i].student
        /\ ~OriginalResult(resits[i], results).is_passed

\* how far a student has come: semesters are numbered 1 to 3 within a year
Rank(st) == st.current_year * 3 + IntOf(st.current_semester)

\* C27: a student's (current_year, current_semester) never moves backward
\* through report handling: once a later report of the student has been
\* approved, saving an earlier approved report again does not put the student
\* back to an earlier year / semester.
C27_ResaveNeverMovesBackward ==
    [][\A pk \in DOMAIN reports :
          (/\ reports[pk].status = "approved"
           /\ \E j \in DOMAIN reports :
                 /\ j > pk
                 /\ reports[j].student = reports[pk].student
                 /\ reports[j].status = "approved"
           /\ AdminChangeReport(pk, "approved"))
            => Rank(student'[reports[pk].student]) >= Rank(student[reports[pk].student])]_vars

\* the result as it stood after the original attempt
FirstAttempt(pk) == CHOOSE r \in EnrollResults : ResultPk(r) = pk

\* C28: across successive resits of the same original SemesterResult in
\* different resit semesters, the marks of the first attempt stay
\* recoverable: every ResitExam's original_marks / original_grade snapshot,
\* and the audit remark on the result, state the marks of the original
\* attempt, not the marks written by an earlier completed resit.
C28_SnapshotIsFirstAttempt ==
    /\ \A i \in DOMAIN resits :
          /\ resits[i].original_marks = FirstAttempt(resits[i].original_result).total_marks
          /\ resits[i].original_grade = FirstAttempt(resits[i].original_result).grade
    /\ \A r \in results :
          r.remarks # <<>> => r.remarks[4] = FirstAttempt(ResultPk(r)).total_marks

\* C29: only a pending or approved enrolment blocks a new one: after the
\* student's UnitEnrollment for (student, unit, semester) has been rejected or
\* dropped, a new request for the same (student, unit, semester) that
\* satisfies the report, allocation and resit preconditions succeeds and
\* creates a pending UnitEnrollment.
C29_RejectedEnrollmentDoesNotBlock ==
    [][last'.op \in {"enroll_student_in_unit", "admin_add_enrollment"} =>
         \A s \in EnrollingStudents, u \in ProgrammeUnits, m \in EnrollSemesters,
            r \in DOMAIN reports, type \in ENROLLMENT_TYPE :
              (/\ \E i \in DOMAIN enrollments :
                     /\ RowKey(enrollments[i]) = <<s, u, m>>
                     /\ enrollments[i].status \in {"rejected", "dropped"}
               /\ Violated(NewEnrollment(s, r, u, m, type, "pending", 0)) = {}
               /\ EnrollmentRequest(s, u, m, r, type))
                => /\ last'.errors = {}
                   /\ Len(enrollments') = Len(enrollments) + 1
                   /\ enrollments'[Len(enrollments')]
                         = NewEnrollment(s, r, u, m, type, "pending", 0)]_vars

\* C30: the two report-filing entry points agree on eligibility: for every
\* student and every set of SemesterResults, create_semester_report (which
\* counts all failed results of the student) and semester_report_view (which
\* counts the failed results of the semester of the latest SemesterGPA)
\* compute the same failed_units_count and so accept or refuse the same
\* filings.
C30_EntryPointsAgree ==
    \A s \in Students :
        /\ get_student_eligibility_for_reporting(s)[2] = ViewFailedUnits(s)
        /\ get_student_eligibility_for_reporting(s)[1]
              = (ViewFailedUnits(s) <= MaxFailedUnits)

====
